---- MODULE Spec2Model ----
(***************************************************************************)
(* Model of the ajaccio chess core: bitboards, squares, the Position       *)
(* state machine (from_fen, piece_at, make_move, undo_move) and the ray    *)
(* generators used to enumerate moves.                                     *)
(*                                                                         *)
(* A Bitboard (u64, bit i <=> square i) is modelled as the set of the      *)
(* indices of its set bits, so & | ^ are intersection, union and symmetric *)
(* difference.  A Square is its u8 index.                                  *)
(***************************************************************************)
EXTENDS Integers, Sequences, FiniteSets, TLC

\* ---------------------------------------------------------------- bounds
\* Longest line of moves made and not yet undone.
MaxPly == 2

\* Most set bits of a sparse bitboard handed to squares().
MaxBits == 2

\* Most occupied squares of an occupancy handed to the slider functions.
MaxBlockers == 2

\* ------------------------------------------------------------- square.rs
Squares == 0 .. 63

\* Option<Square>::None
NoSquare == 0 - 1

from_coords(file, rank) == (file + rank * 8) % 256

rank(square) == square \div 8

file(square) == square % 8

\* 1 << self.0 on a u64
to_bitboard(square) == {square % 64}

\* impl Add<u8> for Square
SquareAdd(square, rhs) == (square + rhs) % 256

\* impl Sub<u8> for Square
SquareSub(square, rhs) == (square - rhs) % 256

\* Square::from_san for the squares the code names
a1 == from_coords(0, 0)
d1 == from_coords(3, 0)
e1 == from_coords(4, 0)
f1 == from_coords(5, 0)
h1 == from_coords(7, 0)
a8 == from_coords(0, 7)
d8 == from_coords(3, 7)
e8 == from_coords(4, 7)
f8 == from_coords(5, 7)
h8 == from_coords(7, 7)

\* ----------------------------------------------------------- bitboard.rs
EmptyBitboard == {}

BitAnd(lhs, rhs) == lhs \cap rhs

BitOr(lhs, rhs) == lhs \cup rhs

BitXor(lhs, rhs) == (lhs \ rhs) \cup (rhs \ lhs)

BitNot(bb) == Squares \ bb

is_empty(bb) == bb = {}

is_nonempty(bb) == ~is_empty(bb)

\* u32 popcount of the u64
num_occupied_squares(bb) == Cardinality(bb)

\* u64::leading_zeros: the zero bits above the highest set bit, 64 for 0
leading_zeros(bb) ==
    IF bb = {}
    THEN 64
    ELSE 63 - (CHOOSE top \in bb : \A other \in bb : other <= top)

\* a decimal literal divided by two, digit by digit
HalveDigits(digits) ==
    [i \in 1 .. Len(digits) |->
        ((IF i > 1 THEN (digits[i - 1] % 2) * 10 ELSE 0) + digits[i]) \div 2]

\* the set bits of a decimal literal, the lowest being number `bit`
RECURSIVE LiteralBits(_, _)
LiteralBits(digits, bit) ==
    IF \A i \in 1 .. Len(digits) : digits[i] = 0
    THEN {}
    ELSE (IF digits[Len(digits)] % 2 = 1 THEN {bit} ELSE {})
            \cup LiteralBits(HalveDigits(digits), bit + 1)

\* Bitboard::new(n) for a u64 literal n written as its decimal digits
Bitboard_new(digits) == {bit \in LiteralBits(digits, 0) : bit < 64}

\* SquaresIter::new
SquaresIter_new(bitboard) == [bitboard |-> bitboard]

\* SquaresIter::next taking the lowest set bit
SquaresIter_nextLowest(self) ==
    IF is_empty(self.bitboard)
    THEN [item |-> NoSquare, iter |-> self]
    ELSE LET top_one_square == CHOOSE low \in self.bitboard :
                                    \A other \in self.bitboard : low <= other
             without_top == BitXor(self.bitboard, to_bitboard(top_one_square))
         IN  [item |-> top_one_square, iter |-> [self EXCEPT !.bitboard = without_top]]

\* SquaresIter::next: the item returned and the iterator afterwards
SquaresIter_next(self) ==
    IF is_empty(self.bitboard)
    THEN [item |-> NoSquare, iter |-> self]
    ELSE LET top_one_square == 63 - leading_zeros(self.bitboard)
             without_top == BitXor(self.bitboard, to_bitboard(top_one_square))
         IN  [item |-> top_one_square, iter |-> [self EXCEPT !.bitboard = without_top]]

\* ----------------------------------------------------------- position.rs
Color == {"White", "Black"}

PieceKind == {"Pawn", "Knight", "Bishop", "Rook", "Queen", "King"}

\* Option<PieceKind>::None, Option<CastlingType>::None
NoKind == "None"

NoCastling == "None"

CastlingType == {"Kingside", "Queenside"}

Piece(color, kind) == [color |-> color, kind |-> kind]

\* Option<Piece>::None
NoPiece == [color |-> "None", kind |-> "None"]

Opponent(color) == IF color = "White" THEN "Black" ELSE "White"

\* Army::get_bitboard_mut: the field a piece kind lives in
KindField(kind) ==
    CASE kind = "Pawn"   -> "pawns"
      [] kind = "Knight" -> "knights"
      [] kind = "Bishop" -> "bishops"
      [] kind = "Rook"   -> "rooks"
      [] kind = "Queen"  -> "queens"
      [] kind = "King"   -> "king"

\* Position::get_army_mut: the field an army lives in
ArmyField(color) == IF color = "White" THEN "white" ELSE "black"

\* Army::default()
DefaultArmy ==
    [pawns |-> {}, knights |-> {}, bishops |-> {}, rooks |-> {},
     queens |-> {}, king |-> {}, all |-> {}]

\* Position::default()
DefaultPosition ==
    [white |-> DefaultArmy, black |-> DefaultArmy, all |-> {},
     side_to_play |-> "White",
     white_can_oo |-> FALSE, white_can_ooo |-> FALSE,
     black_can_oo |-> FALSE, black_can_ooo |-> FALSE,
     en_passant |-> NoSquare, halfmove_clock |-> 0, fullmove_number |-> 0]

\* Army::update_union
update_union(army) ==
    [army EXCEPT !.all = BitOr(BitOr(BitOr(BitOr(BitOr(army.pawns,
        army.knights), army.bishops), army.rooks), army.queens), army.king)]

\* Position::update_special_bitboards
update_special_bitboards(self) ==
    LET w == update_union(self.white)
        b == update_union(self.black)
    IN  [self EXCEPT !.white = w, !.black = b, !.all = BitOr(w.all, b.all)]

\* Position::piece_at: first match in the code's scan order
piece_at(self, square) ==
    LET bitboard == to_bitboard(square) IN
    IF is_nonempty(BitAnd(self.white.pawns, bitboard)) THEN Piece("White", "Pawn")
    ELSE IF is_nonempty(BitAnd(self.white.knights, bitboard)) THEN Piece("White", "Knight")
    ELSE IF is_nonempty(BitAnd(self.white.bishops, bitboard)) THEN Piece("White", "Bishop")
    ELSE IF is_nonempty(BitAnd(self.white.rooks, bitboard)) THEN Piece("White", "Rook")
    ELSE IF is_nonempty(BitAnd(self.white.queens, bitboard)) THEN Piece("White", "Queen")
    ELSE IF is_nonempty(BitAnd(self.white.king, bitboard)) THEN Piece("White", "King")
    ELSE IF is_nonempty(BitAnd(self.black.pawns, bitboard)) THEN Piece("Black", "Pawn")
    ELSE IF is_nonempty(BitAnd(self.black.knights, bitboard)) THEN Piece("Black", "Knight")
    ELSE IF is_nonempty(BitAnd(self.black.bishops, bitboard)) THEN Piece("Black", "Bishop")
    ELSE IF is_nonempty(BitAnd(self.black.rooks, bitboard)) THEN Piece("Black", "Rook")
    ELSE IF is_nonempty(BitAnd(self.black.queens, bitboard)) THEN Piece("Black", "Queen")
    ELSE IF is_nonempty(BitAnd(self.black.king, bitboard)) THEN Piece("Black", "King")
    ELSE NoPiece

\* Position::from_fen, given the record the fen crate parsed
from_fen(fen_board) ==
    LET PlacedOn(color, kind) ==
            {i \in 0 .. 63 : fen_board.pieces[i] = Piece(color, kind)}
        ArmyOf(color) ==
            [pawns   |-> PlacedOn(color, "Pawn"),
             knights |-> PlacedOn(color, "Knight"),
             bishops |-> PlacedOn(color, "Bishop"),
             rooks   |-> PlacedOn(color, "Rook"),
             queens  |-> PlacedOn(color, "Queen"),
             king    |-> PlacedOn(color, "King"),
             all     |-> {}]
        position ==
            [DefaultPosition EXCEPT
                !.white = ArmyOf("White"),
                !.black = ArmyOf("Black"),
                !.side_to_play = fen_board.side_to_play,
                !.white_can_oo = fen_board.white_can_oo,
                !.white_can_ooo = fen_board.white_can_ooo,
                !.black_can_oo = fen_board.black_can_oo,
                !.black_can_ooo = fen_board.black_can_ooo,
                !.en_passant = fen_board.en_passant_square,
                !.halfmove_clock = fen_board.halfmove_clock,
                !.fullmove_number = fen_board.fullmove_number]
    IN  update_special_bitboards(position)

\* motion.rs: struct Move
Move(from, to, promote_to, castling) ==
    [from |-> from, to |-> to, promote_to |-> promote_to, castling |-> castling]

NoMove == Move(NoSquare, NoSquare, NoKind, NoCastling)

\* struct UndoContext
NoUndo ==
    [halfmove_clock |-> 0, captured |-> NoKind, en_passant |-> NoSquare,
     reset_oo |-> FALSE, reset_ooo |-> FALSE]

\* RookArm with the square tests dropped: any rook move revokes both rights
RookArmRevokesBoth(self, motion, undo) ==
    IF self.side_to_play = "White"
    THEN [position |-> [self EXCEPT !.white_can_oo = FALSE, !.white_can_ooo = FALSE],
          undo |-> [undo EXCEPT !.reset_oo = TRUE, !.reset_ooo = TRUE]]
    ELSE [position |-> [self EXCEPT !.black_can_oo = FALSE, !.black_can_ooo = FALSE],
          undo |-> [undo EXCEPT !.reset_oo = TRUE, !.reset_ooo = TRUE]]

\* RookArm that toggles the right of the home square instead of clearing it
RookArmTogglesRight(self, motion, undo) ==
    IF self.side_to_play = "White"
    THEN LET s1 == IF motion.from = h1
                   THEN [self EXCEPT !.white_can_oo = ~@] ELSE self
             u1 == IF motion.from = h1
                   THEN [undo EXCEPT !.reset_oo = TRUE] ELSE undo
             s2 == IF motion.from = a1
                   THEN [s1 EXCEPT !.white_can_ooo = ~@] ELSE s1
             u2 == IF motion.from = a1
                   THEN [u1 EXCEPT !.reset_ooo = TRUE] ELSE u1
         IN  [position |-> s2, undo |-> u2]
    ELSE LET s1 == IF motion.from = h8
                   THEN [self EXCEPT !.black_can_oo = ~@] ELSE self
             u1 == IF motion.from = h8
                   THEN [undo EXCEPT !.reset_oo = TRUE] ELSE undo
             s2 == IF motion.from = a8
                   THEN [s1 EXCEPT !.black_can_ooo = ~@] ELSE s1
             u2 == IF motion.from = a8
                   THEN [u1 EXCEPT !.reset_ooo = TRUE] ELSE u1
         IN  [position |-> s2, undo |-> u2]

\* make_move, the `match from.kind` arm for a rook: castling rights
RookArm(self, motion, undo) ==
    IF self.side_to_play = "White"
    THEN LET s1 == IF motion.from = h1
                   THEN [self EXCEPT !.white_can_oo = FALSE] ELSE self
             u1 == IF motion.from = h1
                   THEN [undo EXCEPT !.reset_oo = TRUE] ELSE undo
             s2 == IF motion.from = a1
                   THEN [s1 EXCEPT !.white_can_ooo = FALSE] ELSE s1
             u2 == IF motion.from = a1
                   THEN [u1 EXCEPT !.reset_ooo = TRUE] ELSE u1
         IN  [position |-> s2, undo |-> u2]
    ELSE LET s1 == IF motion.from = h8
                   THEN [self EXCEPT !.black_can_oo = FALSE] ELSE self
             u1 == IF motion.from = h8
                   THEN [undo EXCEPT !.reset_oo = TRUE] ELSE undo
             s2 == IF motion.from = a8
                   THEN [s1 EXCEPT !.black_can_ooo = FALSE] ELSE s1
             u2 == IF motion.from = a8
                   THEN [u1 EXCEPT !.reset_ooo = TRUE] ELSE u1
         IN  [position |-> s2, undo |-> u2]

\* the bitmask a castling tag toggles in the rook bitboard of `color`
CastlingRookMask(color, castling_type) ==
    IF color = "White"
    THEN IF castling_type = "Kingside"
         THEN BitOr(to_bitboard(h1), to_bitboard(f1))
         ELSE BitOr(to_bitboard(a1), to_bitboard(d1))
    ELSE IF castling_type = "Kingside"
         THEN BitOr(to_bitboard(h8), to_bitboard(f8))
         ELSE BitOr(to_bitboard(a8), to_bitboard(d8))

\* KingArm with the Black castling arm toggling the White rook bitboard
KingArmWhiteRooks(self, motion, undo) ==
    LET s1 == [self EXCEPT !.white_can_oo = FALSE, !.white_can_ooo = FALSE]
        u1 == [undo EXCEPT !.reset_oo = TRUE, !.reset_ooo = TRUE]
        s2 == IF motion.castling # NoCastling
              THEN [s1 EXCEPT !.white.rooks =
                        BitXor(@, CastlingRookMask(s1.side_to_play, motion.castling))]
              ELSE s1
    IN  [position |-> s2, undo |-> u1]

\* make_move, the `match from.kind` arm for a king: castling rights and rook
KingArm(self, motion, undo) ==
    LET s1 == [self EXCEPT !.white_can_oo = FALSE, !.white_can_ooo = FALSE]
        u1 == [undo EXCEPT !.reset_oo = TRUE, !.reset_ooo = TRUE]
        s2 == IF motion.castling # NoCastling
              THEN IF s1.side_to_play = "White"
                   THEN [s1 EXCEPT !.white.rooks =
                            BitXor(@, CastlingRookMask("White", motion.castling))]
                   ELSE [s1 EXCEPT !.black.rooks =
                            BitXor(@, CastlingRookMask("Black", motion.castling))]
              ELSE s1
    IN  [position |-> s2, undo |-> u1]

\* PawnArm with the target one rank too far: the square the pawn lands on
PawnArmTargetIsDestination(self, motion, undo) ==
    LET ep_file_start == IF self.side_to_play = "White" THEN 1 ELSE 6
        ep_file_end   == IF self.side_to_play = "White" THEN 3 ELSE 4
        s1 == IF rank(motion.from) = ep_file_start /\ rank(motion.to) = ep_file_end
              THEN [self EXCEPT !.en_passant = motion.to]
              ELSE self
    IN  [position |-> s1, undo |-> undo]

\* PawnArm that takes the pawn behind the en passant target when a pawn
\* steps onto the target
PawnArmTakesEnPassant(self, motion, undo) ==
    LET ep_file_start == IF self.side_to_play = "White" THEN 1 ELSE 6
        ep_file_end   == IF self.side_to_play = "White" THEN 3 ELSE 4
        s1 == IF rank(motion.from) = ep_file_start /\ rank(motion.to) = ep_file_end
              THEN [self EXCEPT !.en_passant =
                        IF self.side_to_play = "White"
                        THEN SquareAdd(motion.from, 8)
                        ELSE SquareSub(motion.from, 8)]
              ELSE self
    IN  [position |->
            IF motion.to = self.en_passant
            THEN IF self.side_to_play = "White"
                 THEN [s1 EXCEPT !.black.pawns = @ \ {motion.to - 8}]
                 ELSE [s1 EXCEPT !.white.pawns = @ \ {motion.to + 8}]
            ELSE s1,
         undo |-> undo]

\* make_move, the `match from.kind` arm for a pawn: en passant target
PawnArm(self, motion, undo) ==
    LET ep_file_start == IF self.side_to_play = "White" THEN 1 ELSE 6
        ep_file_end   == IF self.side_to_play = "White" THEN 3 ELSE 4
        s1 == IF rank(motion.from) = ep_file_start /\ rank(motion.to) = ep_file_end
              THEN [self EXCEPT !.en_passant =
                        IF self.side_to_play = "White"
                        THEN SquareAdd(motion.from, 8)
                        ELSE SquareSub(motion.from, 8)]
              ELSE self
    IN  [position |-> s1, undo |-> undo]

\* HalfmoveStep without the pawn reset
HalfmoveStepAlwaysCounts(self, from) ==
    [self EXCEPT !.halfmove_clock = @ + 1]

\* make_move: update half-move counter
HalfmoveStep(self, from) ==
    [self EXCEPT !.halfmove_clock = IF from.kind = "Pawn" THEN 0 ELSE @ + 1]

\* FullmoveStep counting White's moves instead of Black's
FullmoveStepOnWhite(self) ==
    [self EXCEPT !.fullmove_number =
        IF self.side_to_play = "White" THEN @ + 1 ELSE @]

\* make_move: update full-move number
FullmoveStep(self) ==
    [self EXCEPT !.fullmove_number =
        IF self.side_to_play = "Black" THEN @ + 1 ELSE @]

\* MoverStep that moves the pawn to the destination as well as adding the
\* promoted piece
MoverStepKeepsPawn(self, motion, from) ==
    IF motion.promote_to # NoKind
    THEN LET army == ArmyField(self.side_to_play)
             p1 == [self EXCEPT ![army].pawns =
                        BitXor(@, BitOr(to_bitboard(motion.from),
                                        to_bitboard(motion.to)))]
         IN  [p1 EXCEPT ![army][KindField(motion.promote_to)] =
                        BitOr(@, to_bitboard(motion.to))]
    ELSE [self EXCEPT ![ArmyField(from.color)][KindField(from.kind)] =
                BitXor(@, BitOr(to_bitboard(motion.from), to_bitboard(motion.to)))]

\* make_move: promotion, or the bitboard of the moving piece
MoverStep(self, motion, from) ==
    IF motion.promote_to # NoKind
    THEN LET army == ArmyField(self.side_to_play)
             p1 == [self EXCEPT ![army].pawns =
                        BitXor(@, to_bitboard(motion.from))]
         IN  [p1 EXCEPT ![army][KindField(motion.promote_to)] =
                        BitOr(@, to_bitboard(motion.to))]
    ELSE [self EXCEPT ![ArmyField(from.color)][KindField(from.kind)] =
                BitXor(@, BitOr(to_bitboard(motion.from), to_bitboard(motion.to)))]

\* CaptureStep that resets the clock but leaves the captured piece's bit set
CaptureStepKeepsCaptured(self, motion, captured) ==
    IF captured # NoPiece
    THEN [self EXCEPT !.halfmove_clock = 0]
    ELSE self

\* make_move: change the bitboard of any piece being captured
CaptureStep(self, motion, captured) ==
    IF captured # NoPiece
    THEN [self EXCEPT !.halfmove_clock = 0,
                      ![ArmyField(captured.color)][KindField(captured.kind)] =
                            BitXor(@, to_bitboard(motion.to))]
    ELSE self

\* make_move: flip side to play
FlipSide(self) == [self EXCEPT !.side_to_play = Opponent(@)]

\* make_move that looks the moving piece up after updating the counters
make_movePanicsLate(self, motion) ==
    LET from == piece_at(self, motion.from)
        captured == piece_at(self, motion.to)
        undo == [halfmove_clock |-> self.halfmove_clock,
                 captured |-> IF captured = NoPiece THEN NoKind ELSE captured.kind,
                 en_passant |-> self.en_passant,
                 reset_oo |-> FALSE,
                 reset_ooo |-> FALSE]
        s1 == HalfmoveStep(self, from)
        s2 == FullmoveStep(s1)
        s3 == MoverStep(s2, motion, from)
        s4 == CaptureStep(s3, motion, captured)
        arm == CASE from.kind = "Pawn" -> PawnArm(s4, motion, undo)
                 [] from.kind = "Rook" -> RookArm(s4, motion, undo)
                 [] from.kind = "King" -> KingArm(s4, motion, undo)
                 [] OTHER -> [position |-> s4, undo |-> undo]
    IN  IF from = NoPiece
        THEN [panicked |-> TRUE, position |-> s2, undo |-> NoUndo]
        ELSE [panicked |-> FALSE, position |-> FlipSide(arm.position),
              undo |-> arm.undo]

\* Position::make_move; panicked is the failed unwrap of the source piece
make_move(self, motion) ==
    LET from == piece_at(self, motion.from)
        captured == piece_at(self, motion.to)
        undo == [halfmove_clock |-> self.halfmove_clock,
                 captured |-> IF captured = NoPiece THEN NoKind ELSE captured.kind,
                 en_passant |-> self.en_passant,
                 reset_oo |-> FALSE,
                 reset_ooo |-> FALSE]
        s1 == HalfmoveStep(self, from)
        s2 == FullmoveStep(s1)
        s3 == MoverStep(s2, motion, from)
        s4 == CaptureStep(s3, motion, captured)
        arm == CASE from.kind = "Pawn" -> PawnArm(s4, motion, undo)
                 [] from.kind = "Rook" -> RookArm(s4, motion, undo)
                 [] from.kind = "King" -> KingArm(s4, motion, undo)
                 [] OTHER -> [position |-> s4, undo |-> undo]
    IN  IF from = NoPiece
        THEN [panicked |-> TRUE, position |-> self, undo |-> NoUndo]
        ELSE [panicked |-> FALSE, position |-> FlipSide(arm.position),
              undo |-> arm.undo]

\* undo_move: un-promote, or move the piece on `to` back
UndoMoverStep(self, motion, to) ==
    IF motion.promote_to # NoKind
    THEN LET army == ArmyField(Opponent(self.side_to_play))
             p1 == [self EXCEPT ![army].pawns =
                        BitXor(@, to_bitboard(motion.from))]
         IN  [p1 EXCEPT ![army][KindField(motion.promote_to)] =
                        BitXor(@, to_bitboard(motion.to))]
    ELSE [self EXCEPT ![ArmyField(to.color)][KindField(to.kind)] =
                BitXor(@, BitOr(to_bitboard(motion.from), to_bitboard(motion.to)))]

\* undo_move: put the captured piece back
UndoCaptureStep(self, motion, undo) ==
    IF undo.captured # NoKind
    THEN [self EXCEPT ![ArmyField(self.side_to_play)][KindField(undo.captured)] =
                BitXor(@, to_bitboard(motion.to))]
    ELSE self

\* undo_move: castling rights flagged in the UndoContext
UndoRightsStep(self, undo) ==
    LET s1 == IF undo.reset_oo
              THEN IF self.side_to_play = "White"
                   THEN [self EXCEPT !.black_can_oo = TRUE]
                   ELSE [self EXCEPT !.white_can_oo = TRUE]
              ELSE self
    IN  IF undo.reset_ooo
        THEN IF s1.side_to_play = "White"
             THEN [s1 EXCEPT !.black_can_ooo = TRUE]
             ELSE [s1 EXCEPT !.white_can_ooo = TRUE]
        ELSE s1

\* undo_move: move the castled rook back
UndoCastlingStep(self, motion) ==
    IF motion.castling # NoCastling
    THEN IF self.side_to_play = "White"
         THEN [self EXCEPT !.black.rooks =
                    BitXor(@, CastlingRookMask("Black", motion.castling))]
         ELSE [self EXCEPT !.white.rooks =
                    BitXor(@, CastlingRookMask("White", motion.castling))]
    ELSE self

\* UndoRestoreStep that leaves the full-move number as make_move left it
UndoRestoreStepKeepsFullmove(self, undo) ==
    [self EXCEPT !.halfmove_clock = undo.halfmove_clock,
                 !.en_passant = undo.en_passant]

\* undo_move: restore state from the UndoContext, full-move number
UndoRestoreStep(self, undo) ==
    LET s1 == [self EXCEPT !.halfmove_clock = undo.halfmove_clock,
                           !.en_passant = undo.en_passant]
    IN  [s1 EXCEPT !.fullmove_number =
            IF s1.side_to_play = "White" THEN @ - 1 ELSE @]

\* Position::undo_move; panicked is the failed unwrap of the piece on `to`
undo_move(self, motion, undo) ==
    LET to == piece_at(self, motion.to)
        s1 == UndoMoverStep(self, motion, to)
        s2 == UndoCaptureStep(s1, motion, undo)
        s3 == UndoRightsStep(s2, undo)
        s4 == UndoCastlingStep(s3, motion)
        s5 == UndoRestoreStep(s4, undo)
    IN  IF to = NoPiece
        THEN [panicked |-> TRUE, position |-> self]
        ELSE [panicked |-> FALSE, position |-> FlipSide(s5)]

\* ------------------------------------------------------ movegen.rs bitmask
coords_in_bounds(f, r) == 0 <= f /\ f < 8 /\ 0 <= r /\ r < 8

add_if_in_bounds(bitboard, f, r) ==
    IF coords_in_bounds(f, r)
    THEN BitOr(bitboard, to_bitboard(from_coords(f, r)))
    ELSE bitboard

white_pawn_attacks(square) ==
    LET r == rank(square)
        f == file(square)
    IN  add_if_in_bounds(add_if_in_bounds(EmptyBitboard, f + 1, r + 1), f - 1, r + 1)

black_pawn_attacks(square) ==
    LET r == rank(square)
        f == file(square)
    IN  add_if_in_bounds(add_if_in_bounds(EmptyBitboard, f + 1, r - 1), f - 1, r - 1)

knight_moves(square) ==
    LET f == file(square)
        r == rank(square)
        m1 == add_if_in_bounds(EmptyBitboard, f + 1, r + 2)
        m2 == add_if_in_bounds(m1, f + 1, r - 2)
        m3 == add_if_in_bounds(m2, f - 1, r + 2)
        m4 == add_if_in_bounds(m3, f - 1, r - 2)
        m5 == add_if_in_bounds(m4, f + 2, r + 1)
        m6 == add_if_in_bounds(m5, f + 2, r - 1)
        m7 == add_if_in_bounds(m6, f - 2, r + 1)
    IN  add_if_in_bounds(m7, f - 2, r - 1)

king_moves(square) ==
    LET f == file(square)
        r == rank(square)
        m1 == add_if_in_bounds(EmptyBitboard, f + 1, r + 1)
        m2 == add_if_in_bounds(m1, f + 1, r - 1)
        m3 == add_if_in_bounds(m2, f - 1, r + 1)
        m4 == add_if_in_bounds(m3, f - 1, r - 1)
        m5 == add_if_in_bounds(m4, f + 1, r)
        m6 == add_if_in_bounds(m5, f - 1, r)
        m7 == add_if_in_bounds(m6, f, r + 1)
    IN  add_if_in_bounds(m7, f, r - 1)

\* ------------------------------------------------------------- magic.rs
\* one `for` loop of rook_move_locations: visit the squares in order, add
\* each to the result, break after the first one set in `enemies`
RECURSIVE ScanRay(_, _, _)
ScanRay(ray, enemies, result) ==
    IF ray = << >>
    THEN result
    ELSE LET square == to_bitboard(Head(ray))
             added == BitOr(result, square)
         IN  IF is_nonempty(BitAnd(square, enemies))
             THEN added
             ELSE ScanRay(Tail(ray), enemies, added)

\* rook_move_locations whose loops never break: the rays run to the edge
rook_move_locationsThrough(square, enemies) ==
    LET r == rank(square)
        f == file(square)
    IN  {from_coords(f, rr) : rr \in (0 .. 7) \ {r}}
        \cup {from_coords(ff, r) : ff \in (0 .. 7) \ {f}}

rook_move_locations(square, enemies) ==
    LET r == rank(square)
        f == file(square)
        up    == [i \in 1 .. (7 - r) |-> from_coords(f, r + i)]
        down  == [i \in 1 .. r |-> from_coords(f, r - i)]
        right == [i \in 1 .. (7 - f) |-> from_coords(f + i, r)]
        left  == [i \in 1 .. f |-> from_coords(f - i, r)]
    IN  ScanRay(left, enemies,
          ScanRay(right, enemies,
            ScanRay(down, enemies,
              ScanRay(up, enemies, EmptyBitboard))))

\* rook_attacks whose loops run to the board edge
rook_attacksToEdge(square) ==
    LET r == rank(square)
        f == file(square)
    IN  {from_coords(f, rr) : rr \in (r + 1) .. 7}
        \cup {from_coords(f, rr) : rr \in 0 .. (r - 1)}
        \cup {from_coords(ff, r) : ff \in (f + 1) .. 7}
        \cup {from_coords(ff, r) : ff \in 0 .. (f - 1)}

\* rook_attacks whose loops stop one square short
rook_attacksShort(square) ==
    LET r == rank(square)
        f == file(square)
    IN  {from_coords(f, rr) : rr \in (r + 1) .. 5}
        \cup {from_coords(f, rr) : rr \in 2 .. (r - 1)}
        \cup {from_coords(ff, r) : ff \in (f + 1) .. 5}
        \cup {from_coords(ff, r) : ff \in 2 .. (f - 1)}

\* the relevant-occupancy mask of a rook: the four loops OR squares of the
\* half-open ranges (rank+1)..7, 1..rank, (file+1)..7, 1..file
rook_attacks(square) ==
    LET r == rank(square)
        f == file(square)
    IN  {from_coords(f, rr) : rr \in (r + 1) .. 6}
        \cup {from_coords(f, rr) : rr \in 1 .. (r - 1)}
        \cup {from_coords(ff, r) : ff \in (f + 1) .. 6}
        \cup {from_coords(ff, r) : ff \in 1 .. (f - 1)}

RECURSIVE diagonal_attacks(_, _, _, _)
diagonal_attacks(f, r, dx, dy) ==
    LET cf == f + dx
        cr == r + dy
    IN  IF 1 <= cf /\ cf <= 6 /\ 1 <= cr /\ cr <= 6
        THEN BitOr(to_bitboard(from_coords(cf, cr)),
                   diagonal_attacks(cf, cr, dx, dy))
        ELSE EmptyBitboard

bishop_attacks(square) ==
    LET f == file(square)
        r == rank(square)
    IN  BitOr(BitOr(BitOr(diagonal_attacks(f, r, 1, 1),
                          diagonal_attacks(f, r, 1, 0 - 1)),
                    diagonal_attacks(f, r, 0 - 1, 1)),
              diagonal_attacks(f, r, 0 - 1, 0 - 1))

\* diagonal_move_locations that stops before the occupied square
RECURSIVE diagonal_move_locationsExclusive(_, _, _, _, _)
diagonal_move_locationsExclusive(f, r, dx, dy, enemies) ==
    LET cf == f + dx
        cr == r + dy
    IN  IF 0 <= cf /\ cf < 8 /\ 0 <= cr /\ cr < 8
        THEN LET here == to_bitboard(from_coords(cf, cr))
             IN  IF is_nonempty(BitAnd(here, enemies))
                 THEN EmptyBitboard
                 ELSE BitOr(here, diagonal_move_locationsExclusive(cf, cr, dx, dy,
                                                                   enemies))
        ELSE EmptyBitboard

RECURSIVE diagonal_move_locations(_, _, _, _, _)
diagonal_move_locations(f, r, dx, dy, enemies) ==
    LET cf == f + dx
        cr == r + dy
    IN  IF 0 <= cf /\ cf < 8 /\ 0 <= cr /\ cr < 8
        THEN LET here == to_bitboard(from_coords(cf, cr))
             IN  IF is_nonempty(BitAnd(here, enemies))
                 THEN here
                 ELSE BitOr(here, diagonal_move_locations(cf, cr, dx, dy, enemies))
        ELSE EmptyBitboard

bishop_move_locations(square, enemies) ==
    LET f == file(square)
        r == rank(square)
    IN  BitOr(BitOr(BitOr(diagonal_move_locations(f, r, 1, 1, enemies),
                          diagonal_move_locations(f, r, 1, 0 - 1, enemies)),
                    diagonal_move_locations(f, r, 0 - 1, 1, enemies)),
              diagonal_move_locations(f, r, 0 - 1, 0 - 1, enemies))

\* u64 literals are written as their decimal digits
U64Literal(digits) == {bit \in LiteralBits(digits, 0) : bit < 64}

\* the value of 13 bits of a u64, those of limb number `limb`, from bit k up
RECURSIVE LimbValue(_, _, _)
LimbValue(bits, limb, k) ==
    IF k = 13
    THEN 0
    ELSE (IF (13 * limb + k) \in bits THEN 2 ^ k ELSE 0)
            + LimbValue(bits, limb, k + 1)

\* a u64 as five limbs of 13 bits, lowest first
Limbs(bits) == [limb \in 0 .. 4 |-> LimbValue(bits, limb, 0)]

\* long multiplication of five-limb numbers: the five low limbs of the
\* product, lowest first
LimbProduct(x, y) ==
    LET p0 == x[0] * y[0]
        p1 == x[0] * y[1] + x[1] * y[0] + (p0 \div 8192)
        p2 == x[0] * y[2] + x[1] * y[1] + x[2] * y[0] + (p1 \div 8192)
        p3 == x[0] * y[3] + x[1] * y[2] + x[2] * y[1] + x[3] * y[0]
                + (p2 \div 8192)
        p4 == x[0] * y[4] + x[1] * y[3] + x[2] * y[2] + x[3] * y[1] + x[4] * y[0]
                + (p3 \div 8192)
    IN  <<p0 % 8192, p1 % 8192, p2 % 8192, p3 % 8192, p4 % 8192>>

\* Wrapping(lhs) * Wrapping(rhs): the low 64 bits of the product; the limbs
\* of the factors and of the product are computed once
wrapping_mul(lhs, rhs) ==
    UNION {{bit \in 0 .. 63 :
                (product[(bit \div 13) + 1] \div (2 ^ (bit % 13))) % 2 = 1} :
           product \in {LimbProduct(x, y) : x \in {Limbs(lhs)}, y \in {Limbs(rhs)}}}

\* hash >> n as a usize, summed from bit b up
RECURSIVE ShiftRight(_, _, _)
ShiftRight(hash, n, b) ==
    IF b > 63
    THEN 0
    ELSE (IF b \in hash THEN 2 ^ (b - n) ELSE 0) + ShiftRight(hash, n, b + 1)

\* magic_index keeping the low bits of the hash instead of the high ones
magic_indexLowBits(magic, shift_amount, bitboard) ==
    LET hash == wrapping_mul(magic, bitboard)
    IN  ShiftRight({bit \in hash : bit < shift_amount}, 0, 0)

\* the hash is computed once and shifted
magic_index(magic, shift_amount, bitboard) ==
    LET shifted == {ShiftRight(hash, 64 - shift_amount, 64 - shift_amount) :
                        hash \in {wrapping_mul(magic, bitboard)}}
    IN  CHOOSE index \in shifted : TRUE

\* gen_variations that extends `out` with with_one twice
RECURSIVE gen_variationsWithOneTwice(_)
gen_variationsWithOneTwice(bitboard) ==
    IF is_empty(bitboard)
    THEN <<bitboard>>
    ELSE LET top_one_square == 63 - leading_zeros(bitboard)
             without_top == BitXor(bitboard, to_bitboard(top_one_square))
             rest_variations == gen_variationsWithOneTwice(without_top)
             with_one == [i \in 1 .. Len(rest_variations) |->
                            BitOr(rest_variations[i], to_bitboard(top_one_square))]
         IN  with_one \o with_one

\* the subsets of a bitboard, those with its top bit first
RECURSIVE gen_variations(_)
gen_variations(bitboard) ==
    IF is_empty(bitboard)
    THEN <<bitboard>>
    ELSE LET top_one_square == 63 - leading_zeros(bitboard)
             without_top == BitXor(bitboard, to_bitboard(top_one_square))
             rest_variations == gen_variations(without_top)
             with_one == [i \in 1 .. Len(rest_variations) |->
                            BitOr(rest_variations[i], to_bitboard(top_one_square))]
             without_one == rest_variations
         IN  with_one \o without_one

\* the attacks and solver arguments of gen_database and find_magic
Attacks(slider, square) ==
    IF slider = "Rook" THEN rook_attacks(square) ELSE bishop_attacks(square)

Solver(slider, square, enemies) ==
    IF slider = "Rook"
    THEN rook_move_locations(square, enemies)
    ELSE bishop_move_locations(square, enemies)

\* the variations gen_database computes for each slider and square
Variations ==
    [slider \in {"Rook", "Bishop"} |->
        [square \in Squares |-> gen_variations(Attacks(slider, square))]]

\* gen_magic_database_step that fails on any occupied slot
gen_magic_database_stepStrict(database, magic, num_bits, slider, square, variation) ==
    LET index == magic_index(magic, num_bits, variation)
        solution == Solver(slider, square, variation)
    IN  IF is_empty(database[index])
        THEN [database |-> [database EXCEPT ![index] = solution], none |-> FALSE]
        ELSE [database |-> database, none |-> TRUE]

\* one pass of the loop of gen_magic_database: the database afterwards, and
\* whether the pass returned None
gen_magic_database_step(database, magic, num_bits, slider, square, variation) ==
    LET index == magic_index(magic, num_bits, variation)
        solution == Solver(slider, square, variation)
    IN  IF is_empty(database[index])
        THEN [database |-> [database EXCEPT ![index] = solution], none |-> FALSE]
        ELSE [database |-> database, none |-> database[index] # solution]

\* find_magic_check that returns whatever gen_magic_database returned
find_magic_checkAlwaysReturns(self) ==
    [self EXCEPT !.pc = "returned",
                 !.result = [magic |-> self.magic, shift |-> self.num_bits]]

\* find_magic: `if db.is_some() { return (magic, num_bits); }`, else the
\* next iteration of the loop; failed keeps the candidates that failed
find_magic_check(self) ==
    IF ~self.none
    THEN [self EXCEPT !.pc = "returned",
                      !.result = [magic |-> self.magic, shift |-> self.num_bits]]
    ELSE [self EXCEPT !.pc = "loop", !.failed = @ \cup {self.magic}]

BISHOP_MAGICS == <<
    <<<<1,3,5,2,8,3,9,3,3,4,9,8,9,0,0,8,2>>, 6>>,
    <<<<9,1,5,2,3,4,0,1,9,1,8,9,5,5,5,7>>, 5>>,
    <<<<3,4,5,9,8,9,9,2,1,2,1,1,8,8,8,4,3,5,2>>, 5>>,
    <<<<1,1,6,5,4,8,4,4,7,2,9,2,6,2,1,0>>, 5>>,
    <<<<7,3,2,0,6,1,7,1,3,7,2,1,0,1,6,9,8>>, 5>>,
    <<<<4,6,1,1,8,4,4,4,0,0,1,7,8,2,6,7,1,3,6>>, 5>>,
    <<<<1,1,3,0,3,1,5,1,6,7,3,0,1,6,3,2>>, 5>>,
    <<<<3,9,5,8,6,7,2,3,0,0,8,5,1,2>>, 6>>,
    <<<<7,2,0,9,2,9,2,0,2,1,1,1,2,0,1,9,2>>, 5>>,
    <<<<9,0,0,9,4,0,7,2,7,0,7,2,3,7,1,2>>, 5>>,
    <<<<2,2,6,9,3,9,6,8,6,5,1,3,4,5,9,3>>, 5>>,
    <<<<1,8,1,5,9,8,2,6,1,1,0,5,1,3,1,5,2>>, 5>>,
    <<<<2,2,0,7,8,8,1,7,8,9,6,9,6>>, 5>>,
    <<<<5,8,5,4,6,8,5,1,0,1,7,6,5,4,2,7,2,0>>, 5>>,
    <<<<5,7,6,4,6,8,2,9,8,7,8,2,6,3,2,3,4,5,6>>, 5>>,
    <<<<4,6,1,4,0,8,9,5,5,1,9,3,6,7,5,1,6,8,0>>, 5>>,
    <<<<1,2,1,4,1,3,6,0,5,1,0,4,0,7,6,8>>, 5>>,
    <<<<2,2,5,1,8,0,3,2,5,3,0,1,7,9,0,7,2>>, 5>>,
    <<<<8,4,5,5,3,3,1,6,6,0,4,5,8,2,4>>, 7>>,
    <<<<7,6,7,0,1,9,6,5,5,4,6,9,6,2,9,4,4>>, 7>>,
    <<<<1,1,2,8,1,0,1,0,8,8,0,6,7,7,2,0>>, 7>>,
    <<<<5,6,2,9,6,0,8,2,5,6,4,9,1,5,2>>, 7>>,
    <<<<5,7,1,7,5,0,3,5,0,8,6,5,4,0,8>>, 5>>,
    <<<<3,4,6,3,8,3,1,0,6,3,9,4,6,7,2,5,5,0,4>>, 5>>,
    <<<<6,3,3,6,6,2,8,3,2,3,9,4,7,5,2>>, 5>>,
    <<<<3,2,2,1,5,8,1,1,5,9,6,3,9,0,4>>, 5>>,
    <<<<4,5,4,3,1,8,2,0,7,9,7,8,8,0,3,2>>, 7>>,
    <<<<1,8,4,6,5,1,9,9,9,9,5,2,7,6,9,0,5,6>>, 9>>,
    <<<<2,9,5,9,8,8,5,3,1,0,3,6,9,7,9,2>>, 9>>,
    <<<<1,4,4,7,1,7,8,5,7,9,2,0,4,2,1,8,8,8>>, 7>>,
    <<<<1,1,3,0,2,9,7,9,5,8,6,6,3,1,6,8>>, 5>>,
    <<<<2,3,4,1,9,5,1,2,8,0,3,4,1,1,8,9,1,8,4>>, 5>>,
    <<<<2,3,0,6,1,5,9,7,3,7,2,8,2,4,9,8,5,6,0>>, 5>>,
    <<<<2,8,5,9,4,1,7,4,4,7,9,5,9,0,4>>, 5>>,
    <<<<1,7,2,9,4,5,2,8,3,1,9,4,7,6,2,0,4,1,6>>, 7>>,
    <<<<1,4,4,4,0,1,0,7,8,2,7,9,4,7,1,6,3,2>>, 9>>,
    <<<<1,6,2,1,3,0,6,9,0,3,9,1,9,4,5,2,8,0>>, 9>>,
    <<<<1,4,1,8,4,5,5,9,2,0,8,0,5,4,4>>, 7>>,
    <<<<4,6,2,7,4,5,0,2,7,0,6,8,5,6,2,8,4,1,6>>, 5>>,
    <<<<2,8,8,7,9,7,7,2,5,2,2,5,4,5,2,6,0,8>>, 5>>,
    <<<<1,1,5,3,4,9,5,5,8,7,7,1,9,4,8,7,5,5,2>>, 5>>,
    <<<<1,1,4,0,4,1,5,2,3,2,0,0,3,3,2,8,0>>, 5>>,
    <<<<9,5,1,2,1,6,5,7,0,7,7,6,5,7,9,7,8,9,0>>, 7>>,
    <<<<4,1,2,7,1,9,5,1,3,8,5,6>>, 7>>,
    <<<<1,0,2,0,4,8,4,3,8,0,5,2,4,6,7,2>>, 7>>,
    <<<<2,8,3,7,0,8,3,9,3,2,5,9,3,2,8>>, 7>>,
    <<<<5,8,5,4,7,8,9,5,5,3,0,2,1,3,4,2,7,2>>, 5>>,
    <<<<1,3,0,1,5,4,4,6,9,2,5,7,9,5,6,5,6,0,0>>, 5>>,
    <<<<3,7,1,5,5,8,3,0,8,3,1,9,0,7,0,7,4>>, 5>>,
    <<<<7,2,6,0,3,4,0,2,3,7,1,0,7,2>>, 5>>,
    <<<<2,8,3,6,8,2,6,2,3,8,4,8,4,6,4>>, 5>>,
    <<<<4,4,0,0,7,3,9,7,7,8,5,6,0>>, 5>>,
    <<<<2,1,6,1,7,7,2,4,9,4,1,8,8,7,4,8,8,0>>, 5>>,
    <<<<4,6,1,6,2,6,0,0,5,5,5,6,0,3,8,8,6,0,8>>, 5>>,
    <<<<2,3,0,8,1,0,3,6,0,9,5,4,9,7,1,7,5,6,8>>, 5>>,
    <<<<4,6,1,2,2,5,7,7,7,3,0,8,9,0,6,2,9,2,8>>, 5>>,
    <<<<3,9,4,1,7,8,5,8,2,7,2,7,9,3,6,4>>, 6>>,
    <<<<2,8,8,2,3,1,8,3,6,4,7,4,2,1,6,5,7,9>>, 5>>,
    <<<<1,8,0,1,4,4,0,3,3,7,4,9,4,4,2,6,4>>, 5>>,
    <<<<7,0,3,6,8,7,4,6,3,0,9,6,3,2>>, 5>>,
    <<<<2,5,9,4,0,7,3,3,9,4,4,9,4,3,2,4,9,9,2>>, 5>>,
    <<<<1,0,3,7,6,2,9,4,1,7,7,6,5,3,9,1,5,9,0,4>>, 5>>,
    <<<<2,4,4,9,9,8,0,2,5,6,3,0,9,2,3,1,7,4,4>>, 5>>,
    <<<<9,0,0,9,4,1,5,6,0,9,9,8,3,4,8,8>>, 6>>
>>

ROOK_MAGICS == <<
    <<<<1,8,0,1,6,6,2,5,0,2,0,7,4,7,7,7,6,0>>, 12>>,
    <<<<1,8,0,1,4,7,0,8,2,8,4,0,0,2,3,0,4>>, 11>>,
    <<<<7,2,0,9,2,7,7,8,5,4,8,4,9,4,3,5,2>>, 11>>,
    <<<<9,2,9,5,4,6,4,8,8,3,9,8,4,8,5,9,1,4,0>>, 11>>,
    <<<<1,4,4,1,2,3,9,9,2,7,6,0,9,1,4,9,6,1>>, 11>>,
    <<<<3,6,0,5,0,7,8,7,2,7,6,6,8,7,8,7,2>>, 11>>,
    <<<<1,2,2,5,0,5,0,5,6,7,0,0,1,2,4,4,0,3,6>>, 11>>,
    <<<<7,2,0,6,0,0,7,0,1,2,0,6,6,1,2,4,8>>, 12>>,
    <<<<6,9,1,7,6,6,9,7,7,5,3,3,4,1,7,8,9,4,4>>, 11>>,
    <<<<3,6,1,6,9,8,0,9,3,9,5,7,1,2,1,2,8>>, 10>>,
    <<<<2,3,0,5,9,8,3,8,1,5,4,2,9,9,3,9,2,0,0>>, 10>>,
    <<<<2,3,0,5,9,8,3,7,8,1,0,6,2,8,3,6,3,5,2>>, 10>>,
    <<<<5,7,8,8,5,3,3,2,3,9,7,3,6,0,8,4,4,8>>, 10>>,
    <<<<2,8,8,3,7,1,1,3,0,8,2,0,0,6,7,4,5,6>>, 10>>,
    <<<<1,4,1,2,8,7,2,7,7,7,4,1,3,1,2>>, 10>>,
    <<<<2,8,1,4,8,3,5,7,0,8,7,2,5,7,6>>, 11>>,
    <<<<9,0,0,7,7,5,1,1,5,8,0,5,4,9,1,2>>, 11>>,
    <<<<7,4,4,5,1,2,3,1,9,2,5,3,4,6,5,6,0>>, 10>>,
    <<<<1,4,1,2,8,7,7,8,1,1,0,9,7,6,8>>, 10>>,
    <<<<1,4,1,2,8,7,3,7,8,3,9,1,0,4,0>>, 10>>,
    <<<<2,3,0,6,1,2,5,5,8,3,9,7,0,9,9,2,1,9,6>>, 10>>,
    <<<<4,6,1,2,8,1,2,4,7,0,2,3,7,7,9,0,7,2,0>>, 10>>,
    <<<<7,2,1,9,8,8,8,1,3,1,5,6,6,1,0,5,6>>, 10>>,
    <<<<9,8,0,5,4,8,6,4,7,7,9,5,2,6,8,2,1,1,3>>, 11>>,
    <<<<1,4,0,7,4,1,7,8,5,4,3,6,4,1,6>>, 11>>,
    <<<<9,8,8,6,8,1,0,7,1,2,8,5,0,4,3,2>>, 10>>,
    <<<<9,2,2,3,7,9,4,4,2,9,7,0,9,6,4,7,9,3,6>>, 10>>,
    <<<<1,7,5,9,4,3,4,1,9,1,8,7,2,0>>, 10>>,
    <<<<3,6,0,7,2,7,8,8,2,2,1,7,5,5,5,2,0>>, 10>>,
    <<<<4,6,1,6,1,9,1,8,1,9,2,2,5,7,5,9,8,7,2>>, 10>>,
    <<<<1,1,5,3,2,0,2,9,8,3,8,7,8,6,5,6,0,0,4>>, 10>>,
    <<<<4,6,2,0,6,9,3,5,0,1,1,5,1,2,8,1,5,3,7>>, 11>>,
    <<<<3,6,0,2,8,9,3,4,5,3,7,6,0,9,2,8,0>>, 11>>,
    <<<<3,5,1,8,6,5,9,5,0,8,6,3,3,6>>, 10>>,
    <<<<1,4,4,3,9,6,7,3,2,8,6,2,5,7,0,4,9,6>>, 10>>,
    <<<<3,6,0,3,7,5,9,5,2,6,7,8,7,0,7,2,2>>, 10>>,
    <<<<1,8,0,5,8,3,8,1,1,3,0,4,6,6,3,0,4>>, 10>>,
    <<<<5,6,3,1,2,1,7,8,5,6,7,2,7,2,0>>, 10>>,
    <<<<4,5,0,4,7,3,3,5,6,5,8,5,4,2,2,4>>, 10>>,
    <<<<3,4,5,8,7,6,8,9,1,4,0,4,8,0,9,0,1,7,7>>, 11>>,
    <<<<1,4,0,8,7,6,0,0,1,3,4,5,5,3,6>>, 11>>,
    <<<<7,4,5,9,1,1,4,3,7,1,4,6,8,4,9,6,4>>, 10>>,
    <<<<1,1,6,1,0,8,4,5,4,7,3,9,9,8,0,8>>, 10>>,
    <<<<1,7,2,9,3,9,9,8,4,9,2,3,0,5,6,5,5,0,4>>, 10>>,
    <<<<8,7,9,6,9,1,5,1,7,1,3,3,2>>, 10>>,
    <<<<1,9,3,1,6,2,3,7,7,2,5,5,9,8,0,1,6>>, 10>>,
    <<<<2,8,8,5,1,1,8,5,9,7,1,8,4,2,2,5,4,0>>, 10>>,
    <<<<1,1,5,2,9,3,6,5,6,8,0,5,4,5,7,2,6,4,6,8>>, 11>>,
    <<<<3,6,0,2,8,9,3,4,4,6,2,1,1,1,8,0,8>>, 11>>,
    <<<<1,1,7,0,9,3,6,1,8,0,6,7,9,6,4,2,1,7,6>>, 10>>,
    <<<<1,4,4,1,9,4,4,9,0,3,6,8,7,9,0,7,8,4>>, 10>>,
    <<<<8,8,1,3,5,4,1,3,6,0,2,5,6>>, 10>>,
    <<<<1,4,5,2,4,1,1,2,2,3,5,0,9,0,0,6,0,8>>, 10>>,
    <<<<4,3,9,8,0,8,0,0,9,8,4,3,2>>, 10>>,
    <<<<4,6,1,1,9,6,7,5,1,0,6,1,7,5,2,2,9,4,4>>, 10>>,
    <<<<5,6,4,0,5,0,6,0,6,4,5,9,3,9,2>>, 11>>,
    <<<<1,4,0,8,1,4,9,3,4,2,6,2,0,1,8>>, 12>>,
    <<<<4,6,1,2,0,3,7,8,7,2,8,8,6,8,0,8,9,9,3>>, 11>>,
    <<<<9,2,5,9,4,5,4,7,1,0,4,8,0,3,7,3,8,2,5>>, 11>>,
    <<<<1,1,5,3,2,0,3,0,1,4,0,2,0,8,9,4,7,2,1>>, 11>>,
    <<<<5,6,2,9,8,4,8,5,1,1,1,2,9,6,2>>, 11>>,
    <<<<2,8,1,5,2,6,5,1,6,8,4,3,0,0,9>>, 11>>,
    <<<<2,8,8,2,8,3,1,5,4,9,9,1,6,1,2,4,2,0>>, 11>>,
    <<<<1,3,1,9,4,6,8,4,8,0,9,4,7,4>>, 12>>
>>

\* the (magic, shift_amount) of a slider's square
Magics(slider, square) ==
    LET entry == IF slider = "Rook"
                 THEN ROOK_MAGICS[square + 1]
                 ELSE BISHOP_MAGICS[square + 1]
    IN  [magic |-> U64Literal(entry[1]), shift_amount |-> entry[2]]

\* ------------------------------------------------- parsed board records
\* The piece a FEN placement letter stands for (fen::BoardState.pieces).
FenPiece(ch) ==
    CASE ch = "P" -> Piece("White", "Pawn")
      [] ch = "N" -> Piece("White", "Knight")
      [] ch = "B" -> Piece("White", "Bishop")
      [] ch = "R" -> Piece("White", "Rook")
      [] ch = "Q" -> Piece("White", "Queen")
      [] ch = "K" -> Piece("White", "King")
      [] ch = "p" -> Piece("Black", "Pawn")
      [] ch = "n" -> Piece("Black", "Knight")
      [] ch = "b" -> Piece("Black", "Bishop")
      [] ch = "r" -> Piece("Black", "Rook")
      [] ch = "q" -> Piece("Black", "Queen")
      [] ch = "k" -> Piece("Black", "King")
      [] OTHER -> NoPiece

\* fen::BoardState: rows are listed as in FEN text, rank 8 first
BoardState(rows, side, oo, ooo, boo, booo, ep, halfmove, fullmove) ==
    [pieces |-> [i \in 0 .. 63 |-> FenPiece(rows[8 - rank(i)][file(i) + 1])],
     side_to_play |-> side,
     white_can_oo |-> oo, white_can_ooo |-> ooo,
     black_can_oo |-> boo, black_can_ooo |-> booo,
     en_passant_square |-> ep,
     halfmove_clock |-> halfmove, fullmove_number |-> fullmove]

EmptyRow == <<".", ".", ".", ".", ".", ".", ".", ".">>

\* rnbqkbnr/pppppppp/8/8/8/8/PPPPPPPP/RNBQKBNR w KQkq - 0 1
FenStart ==
    BoardState(<< <<"r", "n", "b", "q", "k", "b", "n", "r">>,
                  <<"p", "p", "p", "p", "p", "p", "p", "p">>,
                  EmptyRow, EmptyRow, EmptyRow, EmptyRow,
                  <<"P", "P", "P", "P", "P", "P", "P", "P">>,
                  <<"R", "N", "B", "Q", "K", "B", "N", "R">> >>,
               "White", TRUE, TRUE, TRUE, TRUE, NoSquare, 0, 1)

\* 4k3/3p4/8/8/4P3/8/8/4K3 b - e3 0 1
FenAfterE4 ==
    BoardState(<< <<".", ".", ".", ".", "k", ".", ".", ".">>,
                  <<".", ".", ".", "p", ".", ".", ".", ".">>,
                  EmptyRow, EmptyRow,
                  <<".", ".", ".", ".", "P", ".", ".", ".">>,
                  EmptyRow, EmptyRow,
                  <<".", ".", ".", ".", "K", ".", ".", ".">> >>,
               "Black", FALSE, FALSE, FALSE, FALSE, from_coords(4, 2), 0, 1)

\* 7k/8/2n5/4p3/4P3/5N2/8/7K w - - 0 2
FenCapture ==
    BoardState(<< <<".", ".", ".", ".", ".", ".", ".", "k">>,
                  EmptyRow,
                  <<".", ".", "n", ".", ".", ".", ".", ".">>,
                  <<".", ".", ".", ".", "p", ".", ".", ".">>,
                  <<".", ".", ".", ".", "P", ".", ".", ".">>,
                  <<".", ".", ".", ".", ".", "N", ".", ".">>,
                  EmptyRow,
                  <<".", ".", ".", ".", ".", ".", ".", "K">> >>,
               "White", FALSE, FALSE, FALSE, FALSE, NoSquare, 0, 2)

\* r3k3/p7/P7/8/8/7p/7P/4K2R w Kq - 0 1
FenCastle ==
    BoardState(<< <<"r", ".", ".", ".", "k", ".", ".", ".">>,
                  <<"p", ".", ".", ".", ".", ".", ".", ".">>,
                  <<"P", ".", ".", ".", ".", ".", ".", ".">>,
                  EmptyRow, EmptyRow,
                  <<".", ".", ".", ".", ".", ".", ".", "p">>,
                  <<".", ".", ".", ".", ".", ".", ".", "P">>,
                  <<".", ".", ".", ".", "K", ".", ".", "R">> >>,
               "White", TRUE, FALSE, FALSE, TRUE, NoSquare, 0, 1)

\* 4k2r/7p/7P/8/8/p7/P7/R3K3 b Qk - 3 1
FenCastleBlack ==
    BoardState(<< <<".", ".", ".", ".", "k", ".", ".", "r">>,
                  <<".", ".", ".", ".", ".", ".", ".", "p">>,
                  <<".", ".", ".", ".", ".", ".", ".", "P">>,
                  EmptyRow, EmptyRow,
                  <<"p", ".", ".", ".", ".", ".", ".", ".">>,
                  <<"P", ".", ".", ".", ".", ".", ".", ".">>,
                  <<"R", ".", ".", ".", "K", ".", ".", ".">> >>,
               "Black", FALSE, TRUE, TRUE, FALSE, NoSquare, 3, 1)

\* 8/7P/8/5K1k/8/8/8/8 w - - 0 1
FenPromotion ==
    BoardState(<< EmptyRow,
                  <<".", ".", ".", ".", ".", ".", ".", "P">>,
                  EmptyRow,
                  <<".", ".", ".", ".", ".", "K", ".", "k">>,
                  EmptyRow, EmptyRow, EmptyRow, EmptyRow >>,
               "White", FALSE, FALSE, FALSE, FALSE, NoSquare, 0, 1)

\* 7k/P7/8/8/8/8/p7/1N5K b - - 4 9
FenPromotionCapture ==
    BoardState(<< <<".", ".", ".", ".", ".", ".", ".", "k">>,
                  <<"P", ".", ".", ".", ".", ".", ".", ".">>,
                  EmptyRow, EmptyRow, EmptyRow, EmptyRow,
                  <<"p", ".", ".", ".", ".", ".", ".", ".">>,
                  <<".", "N", ".", ".", ".", ".", ".", "K">> >>,
               "Black", FALSE, FALSE, FALSE, FALSE, NoSquare, 4, 9)

FenBoards ==
    {FenStart, FenAfterE4, FenCapture, FenCastle, FenCastleBlack,
     FenPromotion, FenPromotionCapture}

\* --------------------------------------------- structurally valid moves
\* Squares holding a piece of `color`, read from the six piece bitboards.
Occupied(self, color) ==
    LET army == self[ArmyField(color)]
    IN  army.pawns \cup army.knights \cup army.bishops \cup army.rooks
            \cup army.queens \cup army.king

PromotePieces == {"Knight", "Bishop", "Rook", "Queen"}

\* Pawn moves from `from`: pushes onto empty squares, diagonal steps onto an
\* opposing piece or onto the (empty) en-passant target; a move reaching the
\* last rank carries a promotion.
PawnMoves(self, from) ==
    LET side == self.side_to_play
        own == Occupied(self, side)
        enemy == Occupied(self, Opponent(side))
        occupied == own \cup enemy
        one == IF side = "White" THEN from + 8 ELSE from - 8
        two == IF side = "White" THEN from + 16 ELSE from - 16
        home == IF side = "White" THEN 1 ELSE 6
        last == IF side = "White" THEN 7 ELSE 0
        attacks == IF side = "White" THEN white_pawn_attacks(from)
                   ELSE black_pawn_attacks(from)
        targets ==
            (IF one \in Squares \ occupied THEN {one} ELSE {})
            \cup (IF rank(from) = home /\ one \notin occupied /\ two \notin occupied
                  THEN {two} ELSE {})
            \cup (attacks \cap (enemy \cup ({self.en_passant} \ own)))
    IN  {Move(from, to, NoKind, NoCastling) : to \in {t \in targets : rank(t) # last}}
        \cup {Move(from, to, k, NoCastling) :
                to \in {t \in targets : rank(t) = last}, k \in PromotePieces}

\* Castling-tagged king moves: king and rook on their home squares with the
\* squares between them empty.
CastlingMoves(self, from) ==
    LET side == self.side_to_play
        occupied == Occupied(self, "White") \cup Occupied(self, "Black")
        rooks == self[ArmyField(side)].rooks
        home == IF side = "White" THEN e1 ELSE e8
        r == rank(home)
    IN  IF from # home THEN {}
        ELSE (IF from_coords(7, r) \in rooks
                 /\ {from_coords(5, r), from_coords(6, r)} \cap occupied = {}
              THEN {Move(from, from_coords(6, r), NoKind, "Kingside")} ELSE {})
             \cup
             (IF from_coords(0, r) \in rooks
                 /\ {from_coords(1, r), from_coords(2, r), from_coords(3, r)}
                        \cap occupied = {}
              THEN {Move(from, from_coords(2, r), NoKind, "Queenside")} ELSE {})

\* Every move whose source holds a piece of the side to move and whose
\* destination, reachable by that piece's movement, is empty or holds an
\* opposing piece.
StructurallyValidMoves(self) ==
    LET side == self.side_to_play
        own == Occupied(self, side)
        occupied == own \cup Occupied(self, Opponent(side))
        PieceMoves(from) ==
            LET kind == piece_at(self, from).kind
                Quiet(tos) == {Move(from, to, NoKind, NoCastling) : to \in tos \ own}
            IN  CASE kind = "Pawn"   -> PawnMoves(self, from)
                  [] kind = "Knight" -> Quiet(knight_moves(from))
                  [] kind = "Bishop" -> Quiet(bishop_move_locations(from, occupied))
                  [] kind = "Rook"   -> Quiet(rook_move_locations(from, occupied))
                  [] kind = "Queen"  -> Quiet(rook_move_locations(from, occupied)
                                            \cup bishop_move_locations(from, occupied))
                  [] kind = "King"   -> Quiet(king_moves(from))
                                            \cup CastlingMoves(self, from)
    IN  UNION {PieceMoves(from) : from \in own}

\* ------------------------------------------------------- movegen.rs iter
\* The generators return the moves pushed to the buffer, and `computed`, the
\* Squares they computed with + or -.
NoMoves == [buffer |-> {}, computed |-> {}]

\* the moves of one pawn onto `to`: one per promotion piece when `promotes`
PawnMovesTo(from, to, promotes) ==
    IF promotes
    THEN {Move(from, to, promote_to, NoCastling) : promote_to \in PromotePieces}
    ELSE {Move(from, to, NoKind, NoCastling)}

\* get_white_pawn_moves computing `square + 16` for every pawn that can step
\* forward, before looking at its rank
get_white_pawn_movesEagerTwo(self) ==
    LET OfPawn(square) ==
            LET pawn_attacks == BitAnd(white_pawn_attacks(square), self.black.all)
                one == SquareAdd(square, 8)
                two == SquareAdd(square, 16)
                one_empty == is_empty(BitAnd(self.all, to_bitboard(one)))
                two_empty == is_empty(BitAnd(self.all, to_bitboard(two)))
            IN  [buffer |->
                    UNION {PawnMovesTo(square, attacked_square,
                                       rank(attacked_square) = 7) :
                                attacked_square \in pawn_attacks}
                    \cup (IF one_empty
                          THEN PawnMovesTo(square, one, rank(square) = 6)
                          ELSE {})
                    \cup (IF one_empty /\ rank(square) = 1 /\ two_empty
                          THEN PawnMovesTo(square, two, FALSE)
                          ELSE {}),
                 computed |->
                    {one} \cup (IF one_empty THEN {two} ELSE {})]
    IN  [buffer |-> UNION {OfPawn(square).buffer : square \in self.white.pawns},
         computed |-> UNION {OfPawn(square).computed : square \in self.white.pawns}]

get_white_pawn_moves(self) ==
    LET OfPawn(square) ==
            LET pawn_attacks == BitAnd(white_pawn_attacks(square), self.black.all)
                one == SquareAdd(square, 8)
                two == SquareAdd(square, 16)
                one_empty == is_empty(BitAnd(self.all, to_bitboard(one)))
                two_empty == is_empty(BitAnd(self.all, to_bitboard(two)))
            IN  [buffer |->
                    UNION {PawnMovesTo(square, attacked_square,
                                       rank(attacked_square) = 7) :
                                attacked_square \in pawn_attacks}
                    \cup (IF one_empty
                          THEN PawnMovesTo(square, one, rank(square) = 6)
                          ELSE {})
                    \cup (IF one_empty /\ rank(square) = 1 /\ two_empty
                          THEN PawnMovesTo(square, two, FALSE)
                          ELSE {}),
                 computed |->
                    {one} \cup (IF one_empty /\ rank(square) = 1 THEN {two} ELSE {})]
    IN  [buffer |-> UNION {OfPawn(square).buffer : square \in self.white.pawns},
         computed |-> UNION {OfPawn(square).computed : square \in self.white.pawns}]

get_black_pawn_moves(self) ==
    LET OfPawn(square) ==
            LET pawn_attacks == BitAnd(black_pawn_attacks(square), self.white.all)
                one == SquareSub(square, 8)
                two == SquareSub(square, 16)
                one_empty == is_empty(BitAnd(self.all, to_bitboard(one)))
                two_empty == is_empty(BitAnd(self.all, to_bitboard(two)))
            IN  [buffer |->
                    UNION {PawnMovesTo(square, attacked_square,
                                       rank(attacked_square) = 0) :
                                attacked_square \in pawn_attacks}
                    \cup (IF one_empty
                          THEN PawnMovesTo(square, one, rank(square) = 1)
                          ELSE {})
                    \cup (IF one_empty /\ rank(square) = 6 /\ two_empty
                          THEN PawnMovesTo(square, two, FALSE)
                          ELSE {}),
                 computed |->
                    {one} \cup (IF one_empty /\ rank(square) = 6 THEN {two} ELSE {})]
    IN  [buffer |-> UNION {OfPawn(square).buffer : square \in self.black.pawns},
         computed |-> UNION {OfPawn(square).computed : square \in self.black.pawns}]

get_white_knight_moves(self) ==
    [buffer |-> {Move(from, to, NoKind, NoCastling) :
                    <<from, to>> \in
                        {<<f, t>> \in self.white.knights \X Squares :
                            t \in BitAnd(knight_moves(f), BitNot(self.white.all))}},
     computed |-> {}]

get_black_knight_moves(self) ==
    [buffer |-> {Move(from, to, NoKind, NoCastling) :
                    <<from, to>> \in
                        {<<f, t>> \in self.black.knights \X Squares :
                            t \in BitAnd(knight_moves(f), BitNot(self.black.all))}},
     computed |-> {}]

get_white_king_moves(self) ==
    [buffer |-> {Move(from, to, NoKind, NoCastling) :
                    <<from, to>> \in
                        {<<f, t>> \in self.white.king \X Squares :
                            t \in BitAnd(king_moves(f), BitNot(self.white.all))}},
     computed |-> {}]

get_black_king_moves(self) ==
    [buffer |-> {Move(from, to, NoKind, NoCastling) :
                    <<from, to>> \in
                        {<<f, t>> \in self.black.king \X Squares :
                            t \in BitAnd(king_moves(f), BitNot(self.black.all))}},
     computed |-> {}]

\* MovesIter::get_moves
get_moves(self, piece) ==
    CASE piece = Piece("White", "Pawn")   -> get_white_pawn_moves(self)
      [] piece = Piece("White", "Knight") -> get_white_knight_moves(self)
      [] piece = Piece("White", "King")   -> get_white_king_moves(self)
      [] piece = Piece("Black", "Pawn")   -> get_black_pawn_moves(self)
      [] piece = Piece("Black", "Knight") -> get_black_knight_moves(self)
      [] piece = Piece("Black", "King")   -> get_black_king_moves(self)
      [] OTHER -> NoMoves

\* MovesIter::new(position) drained by next(): get_moves for the side to
\* play's Pawn, Knight, Bishop, Rook, Queen and King in turn
MovesIter_drain(self) ==
    LET generated == [kind \in PieceKind |->
                        get_moves(self, Piece(self.side_to_play, kind))]
    IN  [buffer |-> UNION {generated[kind].buffer : kind \in PieceKind},
         computed |-> UNION {generated[kind].computed : kind \in PieceKind}]

\* ---------------------------------------------------------- state machine
VARIABLES
    position,   \* the Position the caller owns
    parsed,     \* the Position from_fen returned
    stack,      \* moves made and not undone, each with its UndoContext and
                \* the Position it was made from
    last,       \* the last call: its name, arguments and the Position before
    panicked,   \* the last call panicked instead of returning
    iter,       \* a SquaresIter, the Bitboard it was made of and the items
                \* next() has returned
    query,      \* a slider query: its square and occupancy, and the results
    build,      \* a magic database of MagicDatabase::new: its slider, square
                \* and magic, the loop of gen_magic_database and a lookup
    subsets,    \* a call of gen_variations: its argument and what it returned
    search,     \* a call of find_magic: the candidate drawn, the loop of
                \* gen_magic_database on it, and what find_magic returned
    moves       \* a MovesIter over the Position: the moves it has yielded

vars == <<position, parsed, stack, last, panicked, iter, query, build, subsets,
          search, moves>>

\* no SquaresIter has been made, no slider query been asked
IdleIter == [of |-> EmptyBitboard, bitboard |-> EmptyBitboard, items |-> << >>]

NoAnswer == [mask |-> EmptyBitboard, locations |-> EmptyBitboard,
             masked_locations |-> EmptyBitboard]

IdleQuery == [square |-> NoSquare, occupied |-> EmptyBitboard, asked |-> FALSE,
              rook |-> NoAnswer, bishop |-> NoAnswer]

\* gen_variations and find_magic have not been called, no MovesIter made
IdleSubsets == [bitboard |-> EmptyBitboard, called |-> FALSE, out |-> << >>]

IdleSearch == [slider |-> "None", square |-> NoSquare, attacks |-> EmptyBitboard,
               num_bits |-> 0, variations |-> << >>, pc |-> "idle",
               magic |-> {}, cursor |-> 0,
               database |-> << >>, none |-> FALSE, probes |-> << >>,
               failed |-> {}, recurring |-> {},
               result |-> [magic |-> {}, shift |-> 0]]

IdleMoves == [made |-> FALSE, buffer |-> {}, computed |-> {}]

IdleBuild == [slider |-> "None", square |-> NoSquare, attacks |-> EmptyBitboard,
              magic |-> {}, shift_amount |-> 0, cursor |-> 0, database |-> << >>,
              none |-> FALSE, asked |-> FALSE, occupied |-> EmptyBitboard,
              answer |-> EmptyBitboard]

Init ==
    \E fen_board \in FenBoards :
        /\ position = from_fen(fen_board)
        /\ parsed = from_fen(fen_board)
        /\ stack = << >>
        /\ last = [op |-> "from_fen", motion |-> NoMove, undo |-> NoUndo,
                   before |-> DefaultPosition, original |-> DefaultPosition]
        /\ panicked = FALSE
        /\ iter = IdleIter
        /\ query = IdleQuery
        /\ build = IdleBuild
        /\ subsets = IdleSubsets
        /\ search = IdleSearch
        /\ moves = IdleMoves

\* position.make_move(motion) for a structurally valid motion
MakeMove ==
    /\ Len(stack) < MaxPly
    /\ \E motion \in StructurallyValidMoves(position) :
         LET made == make_move(position, motion) IN
         /\ ~made.panicked
         /\ position' = made.position
         /\ stack' = Append(stack, [motion |-> motion, undo |-> made.undo,
                                    before |-> position])
         /\ last' = [op |-> "make_move", motion |-> motion, undo |-> made.undo,
                     before |-> position, original |-> position]
    /\ UNCHANGED <<parsed, panicked, iter, query, build, subsets,
                 search, moves>>

\* position.undo_move(motion, undo) for the last move made and its context
UndoMove ==
    /\ stack # << >>
    /\ LET top == stack[Len(stack)]
           undone == undo_move(position, top.motion, top.undo)
       IN  /\ ~undone.panicked
           /\ position' = undone.position
           /\ stack' = SubSeq(stack, 1, Len(stack) - 1)
           /\ last' = [op |-> "undo_move", motion |-> top.motion, undo |-> top.undo,
                       before |-> position, original |-> top.before]
    /\ UNCHANGED <<parsed, panicked, iter, query, build, subsets,
                 search, moves>>

Next == MakeMove \/ UndoMove

Spec == Init /\ [][Next]_vars

\* ------------------------------------------- calls that break the contract
\* no call so far has panicked or been given arguments the contract excludes
Conforming == ~panicked /\ last.op # "undo_move"

\* position.make_move(motion) while every call so far kept the contract
MakeConformingMove == Conforming /\ MakeMove

\* moves that were valid earlier in the line of moves made
StaleMoves == UNION {StructurallyValidMoves(stack[i].before) : i \in 1..Len(stack)}

\* position.make_move(motion) for a stale motion whose source square has
\* become empty
MakeMoveEmptySource ==
    /\ Conforming
    /\ \E motion \in StaleMoves :
         /\ piece_at(position, motion.from) = NoPiece
         /\ LET made == make_move(position, motion) IN
              /\ panicked' = made.panicked
              /\ position' = made.position
              /\ stack' = IF made.panicked
                          THEN stack
                          ELSE Append(stack, [motion |-> motion, undo |-> made.undo,
                                              before |-> position])
              /\ last' = [op |-> "make_move", motion |-> motion, undo |-> made.undo,
                          before |-> position, original |-> position]
    /\ UNCHANGED <<parsed, iter, query, build, subsets,
                 search, moves>>

\* move/UndoContext pairs that are not the pair of the last make_move: its
\* context with another captured kind or a reset flag inverted, the context
\* or the move of an earlier make_move
MismatchedPairs ==
    LET top == stack[Len(stack)]
        earlier == {stack[i] : i \in 1..(Len(stack) - 1)}
    IN  ({[motion |-> top.motion, undo |-> [top.undo EXCEPT !.captured = kind]] :
                kind \in PieceKind \cup {NoKind}}
         \cup {[motion |-> top.motion, undo |-> [top.undo EXCEPT !.reset_oo = ~@]],
               [motion |-> top.motion, undo |-> [top.undo EXCEPT !.reset_ooo = ~@]]}
         \cup {[motion |-> top.motion, undo |-> entry.undo] : entry \in earlier}
         \cup {[motion |-> entry.motion, undo |-> top.undo] : entry \in earlier})
        \ {[motion |-> top.motion, undo |-> top.undo]}

\* position.undo_move(motion, undo) for a pair that is not the last
\* make_move's
UndoMoveMismatched ==
    /\ Conforming
    /\ stack # << >>
    /\ \E pair \in MismatchedPairs :
         LET undone == undo_move(position, pair.motion, pair.undo) IN
         /\ panicked' = undone.panicked
         /\ position' = undone.position
         /\ last' = [op |-> "undo_move", motion |-> pair.motion, undo |-> pair.undo,
                     before |-> position, original |-> stack[Len(stack)].before]
    /\ UNCHANGED <<parsed, stack, iter, query, build, subsets,
                 search, moves>>

NextContract == MakeConformingMove \/ MakeMoveEmptySource \/ UndoMoveMismatched

SpecContract == Init /\ [][NextContract]_vars

\* ------------------------------------------------ lines of make_move only
NextLine == MakeMove

SpecLine == Init /\ [][NextLine]_vars

\* ------------------------------------------------- Bitboard::squares()
\* no Position has been parsed
IdlePosition ==
    /\ position = DefaultPosition
    /\ parsed = DefaultPosition
    /\ stack = << >>
    /\ last = [op |-> "none", motion |-> NoMove, undo |-> NoUndo,
               before |-> DefaultPosition, original |-> DefaultPosition]
    /\ panicked = FALSE

\* the bitboards with at most n bits set
RECURSIVE BitboardsUpTo(_)
BitboardsUpTo(n) ==
    IF n = 0
    THEN {EmptyBitboard}
    ELSE LET fewer == BitboardsUpTo(n - 1)
         IN  fewer \cup {BitOr(bb, to_bitboard(sq)) : bb \in fewer, sq \in Squares}

\* the bitboards squares() is called on: the sparse ones and the full board
IterBitboards == BitboardsUpTo(MaxBits) \cup {Squares}

\* bitboard.squares()
InitSquares ==
    /\ \E bitboard \in IterBitboards :
         iter = [of |-> bitboard,
                 bitboard |-> SquaresIter_new(bitboard).bitboard,
                 items |-> << >>]
    /\ query = IdleQuery
    /\ build = IdleBuild
    /\ subsets = IdleSubsets
    /\ search = IdleSearch
    /\ moves = IdleMoves
    /\ IdlePosition

\* the consumer's next(), called until it has returned None
IterNext ==
    /\ IF iter.items = << >> THEN TRUE ELSE iter.items[Len(iter.items)] # NoSquare
    /\ LET step == SquaresIter_next([bitboard |-> iter.bitboard])
       IN  iter' = [iter EXCEPT !.bitboard = step.iter.bitboard,
                                !.items = Append(@, step.item)]
    /\ UNCHANGED <<position, parsed, stack, last, panicked, query, build, subsets,
                 search, moves>>

NextSquares == IterNext

SpecSquares == InitSquares /\ [][NextSquares]_vars

\* ------------------------------------------------------- slider queries
\* the literal 4521262379438080 of test_bishop_move_locations and
\* test_rook_move_locations
TestEnemies == <<4, 5, 2, 1, 2, 6, 2, 3, 7, 9, 4, 3, 8, 0, 8, 0>>

\* the occupancies a query is asked with: the sparse ones and the one of
\* the tests
Occupancies == BitboardsUpTo(MaxBlockers) \cup {Bitboard_new(TestEnemies)}

\* a query is to be asked for a square
InitQuery ==
    /\ \E square \in Squares : query = [IdleQuery EXCEPT !.square = square]
    /\ iter = IdleIter
    /\ build = IdleBuild
    /\ subsets = IdleSubsets
    /\ search = IdleSearch
    /\ moves = IdleMoves
    /\ IdlePosition

\* what a rook or bishop query works with: the slider's mask, its move
\* locations for the occupancy, and for the occupancy masked as
\* MagicDatabase::rook_attacks / bishop_attacks mask it
SliderAnswer(slider, square, occupied) ==
    LET mask == Attacks(slider, square)
        variation == BitAnd(occupied, mask)
    IN  [mask |-> mask,
         locations |-> Solver(slider, square, occupied),
         masked_locations |-> Solver(slider, square, variation)]

\* a queen query for an occupancy: the rook query and the bishop query
QueenQuery ==
    /\ ~query.asked
    /\ \E occupied \in Occupancies :
         query' = [query EXCEPT
                    !.occupied = occupied,
                    !.asked = TRUE,
                    !.rook = SliderAnswer("Rook", query.square, occupied),
                    !.bishop = SliderAnswer("Bishop", query.square, occupied)]
    /\ UNCHANGED <<position, parsed, stack, last, panicked, iter, build, subsets,
                 search, moves>>

NextQuery == QueenQuery

SpecQuery == InitQuery /\ [][NextQuery]_vars

\* ------------------------------------------------------- MagicDatabase
\* the magics of every slider and square
MagicTable ==
    [slider \in {"Rook", "Bishop"} |->
        [square \in Squares |-> Magics(slider, square)]]

\* MagicDatabase::new for one slider and square: gen_database up to the
\* loop of gen_magic_database; its assert_eq fails like a None
InitMagic ==
    /\ \E slider \in {"Rook", "Bishop"}, square \in Squares :
         LET entry == MagicTable[slider][square]
             attacks == Attacks(slider, square)
             num_bits == num_occupied_squares(attacks)
         IN  build = [IdleBuild EXCEPT
                        !.slider = slider,
                        !.square = square,
                        !.attacks = attacks,
                        !.magic = entry.magic,
                        !.shift_amount = entry.shift_amount,
                        !.database = [index \in 0 .. (2 ^ num_bits - 1) |->
                                            EmptyBitboard],
                        !.none = (num_bits # entry.shift_amount)]
    /\ iter = IdleIter
    /\ query = IdleQuery
    /\ subsets = IdleSubsets
    /\ search = IdleSearch
    /\ moves = IdleMoves
    /\ IdlePosition

\* one pass of the loop of gen_magic_database
GenMagicDatabaseStep ==
    /\ ~build.none
    /\ build.cursor < Len(Variations[build.slider][build.square])
    /\ LET variation == Variations[build.slider][build.square][build.cursor + 1]
           pass == gen_magic_database_step(build.database, build.magic,
                        num_occupied_squares(build.attacks), build.slider,
                        build.square, variation)
       IN  build' = [build EXCEPT !.cursor = @ + 1,
                                  !.database = pass.database,
                                  !.none = pass.none]
    /\ UNCHANGED <<position, parsed, stack, last, panicked, iter, query,
                 subsets, search, moves>>

\* MagicDatabase::rook_attacks / bishop_attacks on the finished database,
\* for an occupancy that is a variation of the mask
MagicDatabaseQuery ==
    /\ ~build.none
    /\ ~build.asked
    /\ build.cursor = Len(Variations[build.slider][build.square])
    /\ \E i \in 1 .. Len(Variations[build.slider][build.square]) :
         LET occupied == Variations[build.slider][build.square][i]
             variation == BitAnd(occupied, build.attacks)
             index == magic_index(build.magic, build.shift_amount, variation)
         IN  build' = [build EXCEPT !.asked = TRUE,
                                    !.occupied = occupied,
                                    !.answer = build.database[index]]
    /\ UNCHANGED <<position, parsed, stack, last, panicked, iter, query,
                 subsets, search, moves>>

NextMagic == GenMagicDatabaseStep \/ MagicDatabaseQuery

SpecMagic == InitMagic /\ [][NextMagic]_vars

\* ------------------------------------------------------- gen_variations
\* the bitboards gen_variations is called on: the sparse ones and the
\* masks gen_database and find_magic call it on
VariationMasks ==
    BitboardsUpTo(MaxBits)
        \cup {Attacks(slider, square) : slider \in {"Rook", "Bishop"},
                                        square \in Squares}

InitVariations ==
    /\ \E bitboard \in VariationMasks :
         subsets = [IdleSubsets EXCEPT !.bitboard = bitboard]
    /\ iter = IdleIter
    /\ query = IdleQuery
    /\ build = IdleBuild
    /\ search = IdleSearch
    /\ moves = IdleMoves
    /\ IdlePosition

\* gen_variations(bitboard)
GenVariations ==
    /\ ~subsets.called
    /\ subsets' = [subsets EXCEPT !.called = TRUE,
                                  !.out = gen_variations(subsets.bitboard)]
    /\ UNCHANGED <<position, parsed, stack, last, panicked, iter, query, build,
                   search, moves>>

NextVariations == GenVariations

SpecVariations == InitVariations /\ [][NextVariations]_vars

\* ------------------------------------------------------------ find_magic
\* the squares find_magic is called for: every square for a bishop, a
\* corner and a centre square for a rook
SearchSquares(slider) ==
    IF slider = "Bishop" THEN Squares ELSE {from_coords(3, 3)}

\* values `random & random & random & random` can take: zero, the magic of
\* the next square, and the magic the tables hold for this square
Candidates(slider, square) ==
    {EmptyBitboard,
     MagicTable[slider][(square + 1) % 64].magic,
     MagicTable[slider][square].magic}

\* find_magic up to its loop; recurring is the candidate the random source
\* produces again and again
InitSearch ==
    /\ \E slider \in {"Rook", "Bishop"} :
         \E square \in SearchSquares(slider) :
            LET attacks == Attacks(slider, square)
            IN  search = [IdleSearch EXCEPT
                            !.slider = slider,
                            !.square = square,
                            !.attacks = attacks,
                            !.num_bits = num_occupied_squares(attacks),
                            !.variations = Variations[slider][square],
                            !.recurring = MagicTable[slider][square].magic,
                            !.pc = "loop"]
    /\ iter = IdleIter
    /\ query = IdleQuery
    /\ build = IdleBuild
    /\ subsets = IdleSubsets
    /\ moves = IdleMoves
    /\ IdlePosition

\* the loop draws `magic` and calls gen_magic_database, which allocates
\* the database
Draw(magic) ==
    /\ search.pc = "loop"
    /\ search' = [search EXCEPT
                    !.pc = "gen_magic_database",
                    !.magic = magic,
                    !.cursor = 0,
                    !.database = [index \in 0 .. (2 ^ search.num_bits - 1) |->
                                        EmptyBitboard],
                    !.none = FALSE,
                    !.probes = << >>]
    /\ UNCHANGED <<position, parsed, stack, last, panicked, iter, query, build,
                   subsets, moves>>

DrawCandidate ==
    \E magic \in Candidates(search.slider, search.square) : Draw(magic)

\* one pass of the loop of gen_magic_database on the candidate; probes
\* keeps the variation, index and solution of each pass
ProbeStep ==
    /\ search.pc = "gen_magic_database"
    /\ ~search.none
    /\ search.cursor < Len(search.variations)
    /\ \E variation \in {search.variations[search.cursor + 1]} :
         \E pass \in {gen_magic_database_step(search.database, search.magic,
                        search.num_bits, search.slider, search.square, variation)},
            index \in {magic_index(search.magic, search.num_bits, variation)},
            solution \in {Solver(search.slider, search.square, variation)} :
                search' = [search EXCEPT
                            !.cursor = @ + 1,
                            !.database = pass.database,
                            !.none = pass.none,
                            !.probes = Append(@, [variation |-> variation,
                                                  index |-> index,
                                                  solution |-> solution])]
    /\ UNCHANGED <<position, parsed, stack, last, panicked, iter, query, build,
                   subsets, moves>>

\* gen_magic_database has returned: find_magic returns or loops
CheckDatabase ==
    /\ search.pc = "gen_magic_database"
    /\ search.none \/ search.cursor = Len(search.variations)
    /\ search' = find_magic_check(search)
    /\ UNCHANGED <<position, parsed, stack, last, panicked, iter, query, build,
                   subsets, moves>>

NextSearch == DrawCandidate \/ ProbeStep \/ CheckDatabase

SpecSearch == InitSearch /\ [][NextSearch]_vars

\* the random source keeps producing candidates among which the magic the
\* tables hold recurs; the loops themselves always proceed
SpecSearchFair ==
    /\ SpecSearch
    /\ WF_vars(ProbeStep)
    /\ WF_vars(CheckDatabase)
    /\ SF_vars(Draw(search.recurring))

\* -------------------------------------------------------------- MovesIter
\* 4b3/p2P1p1p/1P6/5P2/5p2/p6p/1P1PpP1P/8 w - - 0 1
FenTestPawnMoves ==
    BoardState(<< <<".", ".", ".", ".", "b", ".", ".", ".">>,
                  <<"p", ".", ".", "P", ".", "p", ".", "p">>,
                  <<".", "P", ".", ".", ".", ".", ".", ".">>,
                  <<".", ".", ".", ".", ".", "P", ".", ".">>,
                  <<".", ".", ".", ".", ".", "p", ".", ".">>,
                  <<"p", ".", ".", ".", ".", ".", ".", "p">>,
                  <<".", "P", ".", "P", "p", "P", ".", "P">>,
                  EmptyRow >>,
               "White", FALSE, FALSE, FALSE, FALSE, NoSquare, 0, 1)

\* the boards a MovesIter is made for after some moves
IterBoards == FenBoards \cup {FenTestPawnMoves}

InitMoves ==
    /\ \E fen_board \in IterBoards :
        /\ position = from_fen(fen_board)
        /\ parsed = from_fen(fen_board)
    /\ stack = << >>
    /\ last = [op |-> "from_fen", motion |-> NoMove, undo |-> NoUndo,
               before |-> DefaultPosition, original |-> DefaultPosition]
    /\ panicked = FALSE
    /\ iter = IdleIter
    /\ query = IdleQuery
    /\ build = IdleBuild
    /\ subsets = IdleSubsets
    /\ search = IdleSearch
    /\ moves = IdleMoves

\* position.make_move(motion) while no MovesIter borrows the Position
MakeMoveBeforeIter == ~moves.made /\ MakeMove

\* MovesIter::new(&position), iterated until next() returns None
IterMoves ==
    /\ ~moves.made
    /\ LET drained == MovesIter_drain(position)
       IN  moves' = [made |-> TRUE, buffer |-> drained.buffer,
                     computed |-> drained.computed]
    /\ UNCHANGED <<position, parsed, stack, last, panicked, iter, query, build,
                   subsets, search>>

NextMoves == MakeMoveBeforeIter \/ IterMoves

SpecMoves == InitMoves /\ [][NextMoves]_vars

\* ------------------------------------------ make_move with an en passant
\* 4k3/8/8/8/3pP3/8/8/4K3 b - e3 0 1
FenEnPassant ==
    BoardState(<< <<".", ".", ".", ".", "k", ".", ".", ".">>,
                  EmptyRow, EmptyRow, EmptyRow,
                  <<".", ".", ".", "p", "P", ".", ".", ".">>,
                  EmptyRow, EmptyRow,
                  <<".", ".", ".", ".", "K", ".", ".", ".">> >>,
               "Black", FALSE, FALSE, FALSE, FALSE, from_coords(4, 2), 0, 1)

\* the parsed boards, and one whose en passant target a pawn can step onto
InitFrame ==
    /\ \E fen_board \in FenBoards \cup {FenEnPassant} :
        /\ position = from_fen(fen_board)
        /\ parsed = from_fen(fen_board)
    /\ stack = << >>
    /\ last = [op |-> "from_fen", motion |-> NoMove, undo |-> NoUndo,
               before |-> DefaultPosition, original |-> DefaultPosition]
    /\ panicked = FALSE
    /\ iter = IdleIter
    /\ query = IdleQuery
    /\ build = IdleBuild
    /\ subsets = IdleSubsets
    /\ search = IdleSearch
    /\ moves = IdleMoves

SpecFrame == InitFrame /\ [][NextLine]_vars

\* ------------------------------------------------------------ properties
\* The piece the last make_move moved, and the side that moved it.
MovedPiece == piece_at(last.before, last.motion.from)

Mover == last.before.side_to_play

Made == last.op = "make_move"

Undone == last.op = "undo_move"

CastlingFlags(self) ==
    <<self.white_can_oo, self.white_can_ooo, self.black_can_oo, self.black_can_ooo>>

\* a two-rank pawn advance from the home rank
IsDoublePush ==
    /\ MovedPiece.kind = "Pawn"
    /\ IF Mover = "White"
       THEN rank(last.motion.from) = 1 /\ last.motion.to = last.motion.from + 16
       ELSE rank(last.motion.from) = 6 /\ last.motion.to = last.motion.from - 16

\* C1: undo_move with the context make_move returned restores the Position
\* the move was made from, in every field, at every depth of a line of moves.
C1_RoundTrip == Undone => position = last.original

\* C2: between calls, each army's `all` is the union of its six piece
\* bitboards and Position.all is the union of the two.
C2_UnionInvariant ==
    /\ position.white.all = Occupied(position, "White")
    /\ position.black.all = Occupied(position, "Black")
    /\ position.all = position.white.all \cup position.black.all

\* C3: after any sequence of make_move and matching undo_move calls, every
\* square is set in at most one of the twelve piece bitboards.
C3_Disjoint ==
    \A sq \in Squares :
        Cardinality({<<a, k>> \in {"white", "black"} \X
                        {"pawns", "knights", "bishops", "rooks", "queens", "king"} :
                            sq \in position[a][k]}) <= 1

C3_Witness ==
    /\ Undone
    /\ last.undo.captured # NoKind
    /\ last.motion.promote_to # NoKind
    /\ piece_at(position, last.motion.to) = Piece("White", last.undo.captured)

\* C4: after make_move of a king move by side S, both castling flags of S
\* are false.
C4_KingRevokesMover ==
    (Made /\ MovedPiece.kind = "King") =>
        IF Mover = "White"
        THEN ~position.white_can_oo /\ ~position.white_can_ooo
        ELSE ~position.black_can_oo /\ ~position.black_can_ooo

\* the rook a castling tag relocates: its home and landing squares
RookHome(color, castling_type) ==
    IF color = "White"
    THEN (IF castling_type = "Kingside" THEN h1 ELSE a1)
    ELSE (IF castling_type = "Kingside" THEN h8 ELSE a8)

RookLanding(color, castling_type) ==
    IF color = "White"
    THEN (IF castling_type = "Kingside" THEN f1 ELSE d1)
    ELSE (IF castling_type = "Kingside" THEN f8 ELSE d8)

\* C5: a castling-tagged king move takes the mover's own rook from its home
\* square to its landing square and leaves the opponent's rooks alone;
\* undo_move of that move takes the same rook back home.
C5_CastlingMovesOwnRook ==
    LET home == RookHome(Mover, last.motion.castling)
        landing == RookLanding(Mover, last.motion.castling)
        own == ArmyField(Mover)
        other == ArmyField(Opponent(Mover))
    IN  /\ (Made /\ last.motion.castling # NoCastling) =>
                /\ home \in last.before[own].rooks
                /\ position[own].rooks =
                        (last.before[own].rooks \ {home}) \cup {landing}
                /\ home \notin position[own].rooks
                /\ position[other].rooks = last.before[other].rooks
        /\ (Undone /\ last.motion.castling # NoCastling) =>
                LET undoer == ArmyField(position.side_to_play)
                    h == RookHome(position.side_to_play, last.motion.castling)
                    l == RookLanding(position.side_to_play, last.motion.castling)
                IN  /\ l \in last.before[undoer].rooks
                    /\ position[undoer].rooks =
                            (last.before[undoer].rooks \ {l}) \cup {h}
                    /\ l \notin position[undoer].rooks
                    /\ position[ArmyField(Opponent(position.side_to_play))].rooks =
                            last.before[ArmyField(Opponent(position.side_to_play))].rooks

C5_Witness ==
    /\ Undone
    /\ last.motion.castling = "Queenside"
    /\ position.side_to_play = "Black"
    /\ a8 \in position.black.rooks
    /\ Len(stack) = 1

C7_DoublePushSetsEnPassant ==
    (Made /\ IsDoublePush) =>
        position.en_passant =
            IF Mover = "White" THEN last.motion.from + 8 ELSE last.motion.from - 8

C7_Witness ==
    /\ Made
    /\ IsDoublePush
    /\ Mover = "Black"
    /\ last.before.en_passant # NoSquare

\* C8: after make_move of any move that is not a two-rank pawn advance from
\* the home rank, en_passant is None.
C8_EnPassantCleared ==
    (Made /\ ~IsDoublePush) => position.en_passant = NoSquare

\* C9: after make_move, halfmove_clock is 0 if the mover is a pawn or the
\* destination held a piece, and the previous value plus 1 otherwise.
C9_HalfmoveClock ==
    Made =>
        position.halfmove_clock =
            IF MovedPiece.kind = "Pawn"
                  \/ piece_at(last.before, last.motion.to) # NoPiece
            THEN 0
            ELSE last.before.halfmove_clock + 1

C9_Witness ==
    /\ Made
    /\ MovedPiece.kind # "Pawn"
    /\ position.halfmove_clock = last.before.halfmove_clock + 1
    /\ last.before.halfmove_clock > 0
    /\ Len(stack) = 2

\* C10: make_move adds 1 to fullmove_number exactly when Black moves and
\* flips side_to_play; a line of n moves begun with White to play has added
\* n \div 2.
C10_FullmoveNumber ==
    /\ Made =>
        /\ position.fullmove_number =
                last.before.fullmove_number + (IF Mover = "Black" THEN 1 ELSE 0)
        /\ position.side_to_play = Opponent(Mover)
    /\ parsed.side_to_play = "White" =>
        position.fullmove_number = parsed.fullmove_number + (Len(stack) \div 2)

C10_Witness ==
    /\ Made
    /\ parsed.side_to_play = "White"
    /\ Len(stack) = 2
    /\ position.fullmove_number = parsed.fullmove_number + 1

\* the piece the last make_move found on the destination square
CapturedPiece == piece_at(last.before, last.motion.to)

\* C11: after make_move of a pawn move with promote_to = K the source square
\* is empty, the destination holds the mover's piece of kind K and the
\* mover's pawn bitboard has no bit at the destination, also when the
\* promotion captures.
C11_PromotionReplacesPawn ==
    (Made /\ MovedPiece.kind = "Pawn" /\ last.motion.promote_to # NoKind) =>
        /\ piece_at(position, last.motion.from) = NoPiece
        /\ piece_at(position, last.motion.to) =
                Piece(Mover, last.motion.promote_to)
        /\ last.motion.to \notin position[ArmyField(Mover)].pawns

C11_Witness ==
    /\ Made
    /\ MovedPiece = Piece("Black", "Pawn")
    /\ last.motion.promote_to = "Knight"
    /\ CapturedPiece = Piece("White", "Knight")
    /\ piece_at(position, last.motion.to) = Piece("Black", "Knight")

\* what a capture leaves behind, given the piece expected on the destination
CaptureOutcome(arrived) ==
    (Made /\ CapturedPiece # NoPiece /\ CapturedPiece.color = Opponent(Mover)) =>
        /\ piece_at(position, last.motion.to) = arrived
        /\ piece_at(position, last.motion.from) = NoPiece
        /\ last.motion.to \notin
                position[ArmyField(CapturedPiece.color)][KindField(CapturedPiece.kind)]
        /\ last.undo.captured = CapturedPiece.kind

\* C12 as stated: after a capture the destination holds the moving piece,
\* the source is empty, the captured piece's bit is cleared from the
\* opponent's bitboard of its kind and UndoContext.captured is its kind.
C12_CaptureLeavesMovingPiece == CaptureOutcome(MovedPiece)

\* C12: after a capture the destination holds the mover's piece, of the
\* promoted kind if the move promotes and of the moving piece's kind
\* otherwise; the source is empty, the captured piece's bit is cleared from
\* the opponent's bitboard of its kind and UndoContext.captured is its kind.
C12_CaptureRemovesCaptured ==
    CaptureOutcome(Piece(Mover, IF last.motion.promote_to # NoKind
                                THEN last.motion.promote_to
                                ELSE MovedPiece.kind))

C12_Witness ==
    /\ Made
    /\ MovedPiece = Piece("White", "Knight")
    /\ CapturedPiece = Piece("Black", "Pawn")
    /\ last.undo.captured = "Pawn"
    /\ position.black.pawns = last.before.black.pawns \ {last.motion.to}

\* C13: make_move on a move whose source square is empty panics, and the
\* Position is then as it was before the call.
C13_EmptySourcePanics ==
    (Made /\ MovedPiece = NoPiece) => (panicked /\ position = last.before)

C13_Witness ==
    /\ Made
    /\ MovedPiece = NoPiece
    /\ panicked
    /\ CapturedPiece # NoPiece
    /\ Len(stack) = 2

\* the last call was undo_move with a pair other than the one the last
\* make_move was called with and returned
Mismatched ==
    /\ Undone
    /\ stack # << >>
    /\ <<last.motion, last.undo>> #
            <<stack[Len(stack)].motion, stack[Len(stack)].undo>>

\* C14: undo_move called with a move/UndoContext pair that is not the last
\* make_move's panics; it never returns.
C14_MismatchedUndoPanics == Mismatched => panicked

\* C19: along a line of make_move calls with no undo, a castling flag that
\* is false in some Position of the line is false in every later one.
C19_RevocationPermanent ==
    \A i \in 1..Len(stack) : \A flag \in 1..4 :
        /\ CastlingFlags(position)[flag] => CastlingFlags(stack[i].before)[flag]
        /\ \A j \in 1..i :
                CastlingFlags(stack[i].before)[flag] =>
                    CastlingFlags(stack[j].before)[flag]

C19_Witness ==
    /\ Len(stack) = 2
    /\ stack[1].before.black_can_oo
    /\ ~stack[2].before.black_can_oo
    /\ piece_at(stack[1].before, stack[1].motion.from) = Piece("Black", "Rook")
    /\ ~position.black_can_oo

\* the castling flags of the side that made the last move, before and after
MoverFlags(self) ==
    IF Mover = "White"
    THEN [oo |-> self.white_can_oo, ooo |-> self.white_can_ooo]
    ELSE [oo |-> self.black_can_oo, ooo |-> self.black_can_ooo]

\* C20: reset_oo / reset_ooo are true only if the paired make_move changed
\* the mover's flag from true to false, and after undo_move a castling flag
\* is on only if it was on before that make_move.
C20_ResetOnlyRevoked ==
    /\ Made =>
        /\ last.undo.reset_oo =>
                (MoverFlags(last.before).oo /\ ~MoverFlags(position).oo)
        /\ last.undo.reset_ooo =>
                (MoverFlags(last.before).ooo /\ ~MoverFlags(position).ooo)
    /\ Undone =>
        \A flag \in 1..4 :
            CastlingFlags(position)[flag] => CastlingFlags(last.original)[flag]

e6 == from_coords(4, 5)

c2 == from_coords(2, 1)

\* C17: squares() yields the set squares of the bitboard, each once, in
\* strictly decreasing index order, yields no other square, and returns
\* None after exactly popcount items.
C17_IterationOrder ==
    LET items == iter.items
        popcount == num_occupied_squares(iter.of)
    IN  /\ Len(items) <= popcount + 1
        /\ \A i \in 1 .. Len(items) :
                IF i <= popcount
                THEN items[i] \in iter.of
                ELSE items[i] = NoSquare
        /\ \A i \in 1 .. Len(items), j \in 1 .. Len(items) :
                (i < j /\ j <= popcount) => items[i] > items[j]
        /\ Len(items) = popcount + 1 =>
                {items[i] : i \in 1 .. popcount} = iter.of

C17_Witness ==
    /\ iter.of = {e6, c2}
    /\ iter.items = <<e6, c2, NoSquare>>

\* the squares from `square` in direction (dx, dy), nearest first, up to and
\* including the board edge
Ray(square, dx, dy) ==
    LET f == file(square)
        r == rank(square)
        n == Cardinality({i \in 1 .. 7 : coords_in_bounds(f + i * dx, r + i * dy)})
    IN  [i \in 1 .. n |-> from_coords(f + i * dx, r + i * dy)]

\* a ray without its last square
RayInterior(square, dx, dy) ==
    LET ray == Ray(square, dx, dy)
    IN  {ray[i] : i \in 1 .. (Len(ray) - 1)}

Directions(slider) ==
    IF slider = "Rook"
    THEN {<<0, 1>>, <<0, 0 - 1>>, <<1, 0>>, <<0 - 1, 0>>}
    ELSE {<<1, 1>>, <<1, 0 - 1>>, <<0 - 1, 1>>, <<0 - 1, 0 - 1>>}

\* the literal 282578800148862 of test_rook_attacks
RookAttacksA1 == <<2, 8, 2, 5, 7, 8, 8, 0, 0, 1, 4, 8, 8, 6, 2>>

\* C16: a slider's move locations for an occupancy are its move locations
\* for the occupancy masked with the slider's relevant-occupancy mask,
\* whatever squares the occupancy holds.
C16_MaskingLosesNothing ==
    query.asked =>
        /\ query.rook.locations = query.rook.masked_locations
        /\ query.bishop.locations = query.bishop.masked_locations

C16_Witness ==
    /\ query.asked
    /\ query.square = from_coords(4, 3)
    /\ query.occupied = {from_coords(4, 5), from_coords(4, 7)}
    /\ BitAnd(query.occupied, query.rook.mask) = {from_coords(4, 5)}
    /\ from_coords(4, 5) \in query.rook.locations
    /\ from_coords(4, 6) \notin query.rook.locations
    /\ BitAnd(query.occupied, query.bishop.mask) = EmptyBitboard

\* C18: the relevant-occupancy mask of a slider on a square is the squares
\* of its four rays without the last square of each and without the square
\* itself; a bishop's mask has no square on file a or h or on rank 1 or 8,
\* and the rook's mask on a1 is b1..g1 with a2..a7, the literal
\* 282578800148862.
C18_MaskShape ==
    build.slider # "None" =>
        /\ build.attacks = UNION {RayInterior(build.square, d[1], d[2]) :
                                    d \in Directions(build.slider)}
        /\ build.square \notin build.attacks
        /\ build.slider = "Bishop" =>
                \A sq \in build.attacks :
                    file(sq) \in 1 .. 6 /\ rank(sq) \in 1 .. 6
        /\ (build.slider = "Rook" /\ build.square = a1) =>
                /\ build.attacks = {from_coords(ff, 0) : ff \in 1 .. 6}
                                    \cup {from_coords(0, rr) : rr \in 1 .. 6}
                /\ build.attacks = Bitboard_new(RookAttacksA1)

C18_Witness ==
    /\ build.slider = "Rook"
    /\ build.square = a1
    /\ build.attacks = Bitboard_new(RookAttacksA1)
    /\ num_occupied_squares(build.attacks) = 12
    /\ build.cursor = 1

\* C15: no magic database of MagicDatabase::new fails to build, and a
\* lookup for a variation of the square's mask returns the slider's move
\* locations for that variation.
C15_TableEqualsOracle ==
    /\ ~build.none
    /\ build.asked =>
            build.answer = Solver(build.slider, build.square, build.occupied)

C15_Witness ==
    /\ build.asked
    /\ build.slider = "Bishop"
    /\ build.square = from_coords(1, 5)
    /\ build.shift_amount = 5
    /\ build.occupied = {from_coords(3, 3)}
    /\ build.answer = {from_coords(2, 6), from_coords(3, 7), from_coords(2, 4),
                       from_coords(3, 3), from_coords(0, 6), from_coords(0, 4)}

\* the twelve piece bitboards, the side to play, the two counters and the
\* en passant target of a Position
PlacementAndCounters(self) ==
    <<[a \in {"white", "black"} |->
          [k \in {"pawns", "knights", "bishops", "rooks", "queens", "king"} |->
              self[a][k]]],
      self.side_to_play, self.halfmove_clock, self.en_passant,
      self.fullmove_number>>

\* C21: make_move followed by undo_move with the returned context restores
\* the twelve piece bitboards, side_to_play, halfmove_clock, en_passant and
\* fullmove_number of the position the move was made from, for captures,
\* promotions, capturing promotions and castling alike.
C21_UndoRestoresPlacement ==
    Undone => PlacementAndCounters(position) = PlacementAndCounters(last.original)

\* a capturing promotion by Black has been undone, the full-move number
\* decremented again
C21_Witness ==
    /\ Undone
    /\ last.motion.promote_to # NoKind
    /\ last.undo.captured # NoKind
    /\ position.side_to_play = "Black"
    /\ last.before.fullmove_number = position.fullmove_number + 1
    /\ PlacementAndCounters(position) = PlacementAndCounters(last.original)

c6 == from_coords(2, 5)

\* the literals 1227793891648880768 and 289385980119482368 of
\* test_bishop_move_locations and test_rook_move_locations
BishopMovesC6 == <<1, 2, 2, 7, 7, 9, 3, 8, 9, 1, 6, 4, 8, 8, 8, 0, 7, 6, 8>>

RookMovesC6 == <<2, 8, 9, 3, 8, 5, 9, 8, 0, 1, 1, 9, 4, 8, 2, 3, 6, 8>>

\* the squares of a ray that no occupied square lies before: the ray up to
\* and including its first occupied square, or all of it
BlockedRay(square, dx, dy, occupied) ==
    LET ray == Ray(square, dx, dy)
    IN  {ray[i] : i \in {k \in 1 .. Len(ray) :
                            \A j \in 1 .. (k - 1) : ray[j] \notin occupied}}

\* C22: for every square and every occupancy, rook_move_locations and
\* bishop_move_locations return, along each of the slider's four rays, the
\* squares from the one next to the origin up to and including the first
\* occupied square, or up to the board edge when none is occupied, and no
\* square beyond; the origin is never in the result.  For c6 and the
\* occupancy of the tests the results are the tests' literals.
C22_BlockedRayOracle ==
    query.asked =>
        /\ query.rook.locations =
                UNION {BlockedRay(query.square, d[1], d[2], query.occupied) :
                            d \in Directions("Rook")}
        /\ query.bishop.locations =
                UNION {BlockedRay(query.square, d[1], d[2], query.occupied) :
                            d \in Directions("Bishop")}
        /\ query.square \notin query.rook.locations
        /\ query.square \notin query.bishop.locations
        /\ (query.square = c6 /\ query.occupied = Bitboard_new(TestEnemies)) =>
                /\ query.rook.locations = Bitboard_new(RookMovesC6)
                /\ query.bishop.locations = Bitboard_new(BishopMovesC6)

\* a rook on e4 with blockers on e6 and b4: the rays stop on e6 and on b4,
\* and run to the edge downwards and to the right
C22_Witness ==
    /\ query.asked
    /\ query.square = from_coords(4, 3)
    /\ query.occupied = {from_coords(4, 5), from_coords(1, 3)}
    /\ query.rook.locations =
            {from_coords(4, 4), from_coords(4, 5),
             from_coords(4, 2), from_coords(4, 1), from_coords(4, 0),
             from_coords(5, 3), from_coords(6, 3), from_coords(7, 3),
             from_coords(3, 3), from_coords(2, 3), from_coords(1, 3)}

\* the query of the tests: c6 with the occupancy 4521262379438080
C22_TestWitness ==
    /\ query.asked
    /\ query.square = c6
    /\ query.occupied = Bitboard_new(TestEnemies)
    /\ query.bishop.locations = Bitboard_new(BishopMovesC6)

\* C23: gen_variations(mask) returns exactly 2^popcount(mask) bitboards,
\* pairwise distinct, each a subset of mask, and every subset of mask, the
\* empty set and mask itself included, is among them.
C23_VariationsArePowerSet ==
    subsets.called =>
        LET out == subsets.out
            returned == {out[i] : i \in 1 .. Len(out)}
        IN  /\ Len(out) = 2 ^ num_occupied_squares(subsets.bitboard)
            /\ Cardinality(returned) = Len(out)
            /\ \A i \in 1 .. Len(out) : BitAnd(out[i], subsets.bitboard) = out[i]
            /\ returned = SUBSET subsets.bitboard
            /\ EmptyBitboard \in returned
            /\ subsets.bitboard \in returned

\* the variations of the rook's mask on a1: 4096 of them, the mask first
\* and the empty bitboard last
C23_Witness ==
    /\ subsets.called
    /\ subsets.bitboard = rook_attacks(a1)
    /\ Len(subsets.out) = 4096
    /\ subsets.out[1] = subsets.bitboard
    /\ subsets.out[4096] = EmptyBitboard

\* C24: gen_magic_database returns None exactly when the variation of the
\* pass collides with an earlier variation of a different answer (variations
\* of the same answer may share a slot); when it has returned Some(table),
\* every variation was probed, table[magic_index(magic, num_bits, v)] is
\* solver(square, v) for every variation v, and the table has 2^num_bits
\* slots.
C24_CollisionProbing ==
    (search.pc # "idle" /\ search.cursor > 0) =>
        LET probes == search.probes
            pass == probes[search.cursor]
            variations == search.variations
        IN  /\ Len(probes) = search.cursor
            /\ search.none <=>
                    \E i \in 1 .. (search.cursor - 1) :
                        /\ probes[i].index = pass.index
                        /\ probes[i].solution # pass.solution
            /\ Cardinality(DOMAIN search.database) = 2 ^ search.num_bits
            /\ search.pc = "returned" =>
                    /\ search.cursor = Len(variations)
                    /\ \A i \in 1 .. Len(variations) :
                            /\ probes[i].variation = variations[i]
                            /\ probes[i].index \in DOMAIN search.database
                            /\ search.database[probes[i].index] = probes[i].solution

\* a candidate failed after two variations of the same answer had shared a
\* slot
C24_Witness ==
    /\ search.pc = "gen_magic_database"
    /\ search.none
    /\ search.cursor > 2
    /\ search.probes[1].index = search.probes[2].index
    /\ search.probes[1].solution = search.probes[2].solution
    /\ search.probes[1].variation # search.probes[2].variation

\* find_magic returns only the candidate of the loop's last iteration, after
\* all variations were probed without a conflict, with the popcount of the
\* mask as shift
ReturnsConflictFree ==
    search.pc = "returned" =>
        LET probes == search.probes
        IN  /\ search.result.magic = search.magic
            /\ search.result.shift =
                    num_occupied_squares(Attacks(search.slider, search.square))
            /\ search.magic \notin search.failed
            /\ ~search.none
            /\ search.cursor = Len(search.variations)
            /\ Len(probes) = search.cursor
            /\ \A i \in 1 .. Len(probes) :
                    search.database[probes[i].index] =
                        Solver(search.slider, search.square, probes[i].variation)

\* after gen_magic_database returned, the loop goes round when the candidate
\* failed and find_magic returns when it did not; a candidate is drawn only at
\* the top of the loop, and nothing is drawn after the return
RetriesUntilFound ==
    /\ (search.pc = "gen_magic_database" /\ search'.pc = "loop") => search.none
    /\ (search.pc = "gen_magic_database" /\ search.none) => search'.pc = "loop"
    /\ (search.pc = "gen_magic_database" /\ ~search.none
            /\ search.cursor = Len(search.variations))
        => search'.pc = "returned"
    /\ search.pc = "loop" =>
            /\ search'.pc = "gen_magic_database"
            /\ search'.cursor = 0
            /\ search'.failed = search.failed
    /\ search.pc # "returned"

\* C25: find_rook_magic / find_bishop_magic return (magic, shift) only when
\* the magic builds a conflict-free table for the square, with shift the
\* popcount of the square's mask; the loop draws a fresh candidate after
\* every failed one and returns as soon as a conflict-free one was drawn;
\* while the random source keeps producing candidates among which a valid
\* magic recurs, find_magic eventually returns.
C25_MagicSearch ==
    /\ []ReturnsConflictFree
    /\ [][RetriesUntilFound]_vars
    /\ <>(search.pc = "returned")

\* find_magic has returned a magic for a bishop on e4 after two other
\* candidates had failed
C25_Witness ==
    /\ search.pc = "returned"
    /\ search.slider = "Bishop"
    /\ search.square = from_coords(4, 3)
    /\ Cardinality(search.failed) = 2
    /\ search.result.shift = 9

\* every pawn stands on one of the ranks 2 to 7
PawnsOffEndRanks(self) ==
    \A square \in self.white.pawns \cup self.black.pawns : rank(square) \in 1 .. 6

\* C26: for a position whose pawns all stand on ranks 2 to 7, every Square
\* the pawn move generators compute with + or - (the single-push and the
\* double-push targets) and the en passant target make_move computes have an
\* index in 0..63.
C26_SquareArithmeticOnBoard ==
    /\ (moves.made /\ PawnsOffEndRanks(position)) => moves.computed \subseteq Squares
    /\ (Made /\ PawnsOffEndRanks(last.before) /\ IsDoublePush) =>
            /\ position.en_passant \in Squares
            /\ position.en_passant =
                    (IF Mover = "White" THEN last.motion.from + 8
                                        ELSE last.motion.from - 8)

\* the moves of White with a pawn on h7: h8 was computed, the top square
C26_Witness ==
    /\ moves.made
    /\ position.side_to_play = "White"
    /\ PawnsOffEndRanks(position)
    /\ from_coords(7, 6) \in position.white.pawns
    /\ h8 \in moves.computed

\* C30: in every position reached from a parsed position by make_move
\* calls, the moves MovesIter yields agree with the piece bitboards: every
\* source square holds a piece of the side to move, no knight or king move
\* lands on a piece of the side to move, every pawn push lands on an empty
\* square and every pawn capture on an opposing piece.
C30_MovesAgreeWithBitboards ==
    moves.made =>
        \A motion \in moves.buffer :
            LET side == position.side_to_play
                from == piece_at(position, motion.from)
                to == piece_at(position, motion.to)
            IN  /\ from # NoPiece
                /\ from.color = side
                /\ from.kind \in {"Knight", "King"} =>
                        (to = NoPiece \/ to.color # side)
                /\ from.kind = "Pawn" =>
                        IF file(motion.to) = file(motion.from)
                        THEN to = NoPiece
                        ELSE to # NoPiece /\ to.color = Opponent(side)

\* the same, for the position from_fen returned, before any make_move
C30_MovesAgreeWhenParsed ==
    (moves.made /\ stack = << >>) => C30_MovesAgreeWithBitboards

\* the slots of the database that hold a non-empty bitboard
WrittenSlots == {index \in DOMAIN search.database :
                    is_nonempty(search.database[index])}

\* every solution stored is non-empty, so the slots that read as written are
\* exactly the slots a pass has stored to
MarkerIsSafe ==
    (search.pc # "idle" /\ search.cursor > 0) =>
        LET probes == search.probes
            stored == IF search.none THEN search.cursor - 1 ELSE search.cursor
        IN  /\ \A i \in 1 .. search.cursor : is_nonempty(probes[i].solution)
            /\ WrittenSlots = {probes[i].index : i \in 1 .. stored}

\* a pass never changes a slot that holds a solution, and returns None when
\* the slot holds another solution than the variation's
NeverOverwrites ==
    (search.pc = "gen_magic_database" /\ search'.cursor = search.cursor + 1) =>
        LET pass == search'.probes[search'.cursor]
        IN  /\ \A index \in WrittenSlots :
                    search'.database[index] = search.database[index]
            /\ (pass.index \in WrittenSlots
                    /\ search.database[pass.index] # pass.solution)
                => search'.none

\* C27: the empty bitboard is a safe marker of an unfilled slot in
\* gen_magic_database: rook_move_locations and bishop_move_locations never
\* return the empty bitboard, so a written slot is never taken for an
\* unwritten one and a collision is never overwritten silently.
C27_EmptyMarkerSafe == []MarkerIsSafe /\ [][NeverOverwrites]_vars

\* for a bishop on a1 every variation up to the one with only b2 occupied
\* has been probed: its solution is b2 alone, the smallest a bishop has
C27_Witness ==
    /\ search.slider = "Bishop"
    /\ search.square = a1
    /\ search.cursor > 0
    /\ ~search.none
    /\ search.probes[search.cursor].variation = {from_coords(1, 1)}
    /\ search.probes[search.cursor].solution = {from_coords(1, 1)}
    /\ search.database[search.probes[search.cursor].index] = {from_coords(1, 1)}

\* the castling flags of the side that did not make the last move
OtherFlags(self) ==
    IF Mover = "White"
    THEN <<self.black_can_oo, self.black_can_ooo>>
    ELSE <<self.white_can_oo, self.white_can_ooo>>

\* C28: make_move never changes the castling flags of the side that is not
\* moving: a move by White leaves black_can_oo and black_can_ooo unchanged, a
\* move by Black, a king move or castling included, leaves white_can_oo and
\* white_can_ooo unchanged.
C28_OtherSideFlagsKept ==
    Made => OtherFlags(position) = OtherFlags(last.before)

\* the same for every move but a king move of Black
C28_OtherSideFlagsKeptButBlackKing ==
    (Made /\ ~(Mover = "Black" /\ MovedPiece.kind = "King")) =>
        OtherFlags(position) = OtherFlags(last.before)

\* the squares the last make_move may change: source and destination and,
\* for a castling-tagged king move, the rook's home and landing squares
TouchedSquares ==
    {last.motion.from, last.motion.to}
        \cup (IF MovedPiece.kind = "King" /\ last.motion.castling # NoCastling
              THEN CastlingRookMask(Mover, last.motion.castling)
              ELSE {})

\* the bits set in the twelve piece bitboards
PieceCount(self) ==
    LET Count(army) ==
            num_occupied_squares(army.pawns) + num_occupied_squares(army.knights)
                + num_occupied_squares(army.bishops) + num_occupied_squares(army.rooks)
                + num_occupied_squares(army.queens) + num_occupied_squares(army.king)
    IN  Count(self.white) + Count(self.black)

\* C29: make_move changes the occupancy only of the move's source and
\* destination squares and, for a castling-tagged king move, of the rook's
\* home and landing squares; every other square keeps its occupant, and the
\* number of pieces drops by one exactly when the destination was occupied
\* (a pawn stepping diagonally onto the en passant target removes no pawn).
C29_OccupancyFrame ==
    Made =>
        /\ \A square \in Squares \ TouchedSquares :
                piece_at(position, square) = piece_at(last.before, square)
        /\ PieceCount(position) =
                PieceCount(last.before)
                    - (IF piece_at(last.before, last.motion.to) # NoPiece
                       THEN 1 ELSE 0)

\* a Black pawn has stepped from d4 onto the en passant target e3: the White
\* pawn on e4 is still there
C29_Witness ==
    /\ Made
    /\ MovedPiece = Piece("Black", "Pawn")
    /\ last.motion.to = last.before.en_passant
    /\ file(last.motion.from) # file(last.motion.to)
    /\ piece_at(position, from_coords(4, 3)) = Piece("White", "Pawn")
    /\ PieceCount(position) = PieceCount(last.before)

====
